---- MODULE Spec2Model ----
(***************************************************************************)
(* The HTTP/3 streaming frame parser of proxygen (HQFramedCodec) and the   *)
(* per-type payload parsers of HQFramer, as a state machine over a byte    *)
(* stream that the transport hands to onFramedIngress in arbitrary chunks. *)
(*                                                                         *)
(* Bytes are the integers 0..255.  A Cursor is a pair (buf, c): the buffer *)
(* of the current call and the number of bytes already read from it.       *)
(***************************************************************************)
EXTENDS Integers, Sequences, FiniteSets, TLC

\* ------------------------------------------------------------------ bounds
\* Longest wire stream (in bytes) the transport delivers.
MaxWireLen == 6
\* A callback may pause the parser after the k-th callback of a call, k <= MaxPauseAt.
MaxPauseAt == 2
\* Longest SETTINGS payload (in bytes) of the SETTINGS-only streams.
MaxSettingsLen == 4
\* Longest payload (in bytes) of the one-frame streams.
MaxPayloadLen == 4
\* A write operation is called while the output queue holds at most this many bytes.
MaxQueueLen == 2

\* --------------------------------------------------------------- constants
NONE == "NONE"

\* uint64_t arithmetic wraps.  TLC's integers are 32-bit, so the modulus 2^64
\* is scaled to 2^30; every value on a modelled wire is far below it, and a
\* wrapped difference (2^64 - k) compares with small numbers exactly as
\* (2^30 - k) does.
kU64Mod == 1073741824

FrameType ==
  [DATA |-> 0, HEADERS |-> 1, PRIORITY |-> 2, CANCEL_PUSH |-> 3, SETTINGS |-> 4,
   PUSH_PROMISE |-> 5, GOAWAY |-> 7, MAX_PUSH_ID |-> 13]

SettingId ==
  [HEADER_TABLE_SIZE |-> 1, NUM_PLACEHOLDERS |-> 9, MAX_HEADER_LIST_SIZE |-> 6,
   QPACK_BLOCKED_STREAMS |-> 7]

PriorityElementType ==
  [REQUEST_STREAM |-> 0, PUSH_STREAM |-> 1, PLACEHOLDER |-> 2, TREE_ROOT |-> 3]

\* Bit positions of the PRIORITY flags byte.
PriorityFlagBits ==
  [PRIORITIZED_TYPE_POS |-> 6, DEPENDENCY_TYPE_POS |-> 4, PRIORITY_EMPTY_POS |-> 1,
   PRIORITY_EXCLUSIVE_MASK |-> 1]

\* The sentinel bit that marks an internal push id: the top bit of the word
\* (bit 63, scaled like kU64Mod to bit 29).
kPushIdMask == 536870912

\* quic::encodeQuicInteger fails from 2^62 on, a quarter of the word's range
\* (scaled like kU64Mod to 2^28).  The classes of 1, 2 and 4 bytes keep their
\* limits; the values the code encodes in 8 bytes have no counterpart below
\* the scaled limit.
kVarintLimit == 268435456

\* The DATA length that announces an unframed (partially reliable) body.
kUnframedDataFrameLen == 0

\* Default atMost of quic::decodeQuicInteger: sizeof(uint64_t).
kMaxVarintLen == 8

\* ----------------------------------------------------------------- helpers
Min(a, b) == IF a < b THEN a ELSE b

U64(x) == x % kU64Mod

Pow2(n) == IF n = 0 THEN 1 ELSE IF n = 1 THEN 2 ELSE IF n = 2 THEN 4 ELSE 8

Shl(n) == CASE n = 1 -> 2 [] n = 4 -> 16 [] n = 6 -> 64 [] OTHER -> 1

\* x | mask and x & ~mask for a mask of one bit (0: no mask).
BitOr(x, mask) ==
  IF mask = 0 \/ (x \div mask) % 2 = 1 THEN x ELSE x + mask

BitClear(x, mask) ==
  IF mask = 0 \/ (x \div mask) % 2 = 0 THEN x ELSE x - mask

\* folly::io::Cursor::canAdvance
canAdvance(buf, c, n) == Len(buf) - c >= n

\* ------------------------------------------------- QUIC variable-length ints
RECURSIVE VarintValue(_, _, _, _)
\* Big-endian value of the n bytes after offset c, the two class bits of the
\* first byte cleared; acc is the value of the bytes read so far.
VarintValue(buf, c, n, acc) ==
  IF n = 0 THEN acc ELSE VarintValue(buf, c + 1, n - 1, acc * 256 + buf[c + 1])

NoInt == [ok |-> FALSE, first |-> 0, second |-> 0]

\* quic::decodeQuicInteger(cursor, atMost): none when the cursor or atMost holds
\* fewer bytes than the length class of the first byte asks for; the cursor is
\* advanced by `second` only on success.
decodeQuicInteger(buf, c, atMost) ==
  IF atMost = 0 \/ ~canAdvance(buf, c, 1) THEN NoInt
  ELSE LET b0 == buf[c + 1]
           n == Pow2(b0 \div 64)
       IN IF n = 1 THEN [ok |-> TRUE, first |-> b0 % 64, second |-> 1]
          ELSE IF atMost < n \/ ~canAdvance(buf, c, n) THEN NoInt
          ELSE [ok |-> TRUE, first |-> VarintValue(buf, c + 1, n - 1, b0 % 64),
                second |-> n]

\* --------------------------------------------------- HQFramer payload parsers
\* Each returns [err, cur, out]: the ParseResult, the cursor offset when the
\* call returns, and the out parameter as a sequence of integers.
Parsed(err, cur, out) == [err |-> err, cur |-> cur, out |-> out]

parseData(buf, c, length) ==
  IF length = 0 THEN Parsed("HTTP_MALFORMED_FRAME_DATA", c, <<>>)
  ELSE Parsed(NONE, c + length, SubSeq(buf, c + 1, c + length))

parseHeaders(buf, c, length) ==
  Parsed(NONE, c + length, SubSeq(buf, c + 1, c + length))

\* Mutant: the mask of the empty bits is 0x03, not 0x07.
decodePriorityFlags_NarrowEmptyMask(flags) ==
  [prioritizedType |-> (flags \div Shl(PriorityFlagBits.PRIORITIZED_TYPE_POS)) % 4,
   dependencyType |-> (flags \div Shl(PriorityFlagBits.DEPENDENCY_TYPE_POS)) % 4,
   exclusive |-> (flags % 2) * PriorityFlagBits.PRIORITY_EXCLUSIVE_MASK,
   ok |-> (flags \div Shl(PriorityFlagBits.PRIORITY_EMPTY_POS)) % 4 = 0]

decodePriorityFlags(flags) ==
  [prioritizedType |-> (flags \div Shl(PriorityFlagBits.PRIORITIZED_TYPE_POS)) % 4,
   dependencyType |-> (flags \div Shl(PriorityFlagBits.DEPENDENCY_TYPE_POS)) % 4,
   exclusive |-> (flags % 2) * PriorityFlagBits.PRIORITY_EXCLUSIVE_MASK,
   ok |-> (flags \div Shl(PriorityFlagBits.PRIORITY_EMPTY_POS)) % 8 = 0]

\* Mutant: the residual length is not compared with 0 at the end.
parsePriority_IgnoresLength(buf, c, length) ==
  LET Bad(cur) == Parsed("HTTP_MALFORMED_FRAME_PRIORITY", cur, <<>>) IN
  IF ~canAdvance(buf, c, 1) THEN Bad(c)
  ELSE
    LET flags == buf[c + 1]
        c1 == c + 1
        len1 == U64(length - 1)
        p == decodePriorityFlags(flags)
    IN
    IF ~p.ok THEN Bad(c1)
    ELSE IF p.prioritizedType = PriorityElementType.TREE_ROOT THEN Bad(c1)
    ELSE
      LET id == decodeQuicInteger(buf, c1, len1) IN
      IF ~id.ok THEN Bad(c1)
      ELSE
        LET c2 == c1 + id.second
            len2 == U64(len1 - id.second)
            hasDep == p.dependencyType # PriorityElementType.TREE_ROOT
            dep == IF hasDep THEN decodeQuicInteger(buf, c2, len2)
                   ELSE [ok |-> TRUE, first |-> 0, second |-> 0]
        IN
        IF ~dep.ok THEN Bad(c2)
        ELSE
          LET c3 == c2 + dep.second
              len3 == U64(len2 - dep.second)
          IN
          IF ~canAdvance(buf, c3, 1) THEN Bad(c3)
          ELSE
            LET weight == buf[c3 + 1]
                len4 == U64(len3 - 1)
            IN
            IF len4 = kU64Mod THEN Bad(c3 + 1)
            ELSE Parsed(NONE, c3 + 1,
                        <<p.prioritizedType, p.dependencyType, p.exclusive,
                          id.first, dep.first, weight>>)

parsePriority(buf, c, length) ==
  LET Bad(cur) == Parsed("HTTP_MALFORMED_FRAME_PRIORITY", cur, <<>>) IN
  IF ~canAdvance(buf, c, 1) THEN Bad(c)
  ELSE
    LET flags == buf[c + 1]
        c1 == c + 1
        len1 == U64(length - 1)
        p == decodePriorityFlags(flags)
    IN
    IF ~p.ok THEN Bad(c1)
    ELSE IF p.prioritizedType = PriorityElementType.TREE_ROOT THEN Bad(c1)
    ELSE
      LET id == decodeQuicInteger(buf, c1, len1) IN
      IF ~id.ok THEN Bad(c1)
      ELSE
        LET c2 == c1 + id.second
            len2 == U64(len1 - id.second)
            hasDep == p.dependencyType # PriorityElementType.TREE_ROOT
            dep == IF hasDep THEN decodeQuicInteger(buf, c2, len2)
                   ELSE [ok |-> TRUE, first |-> 0, second |-> 0]
        IN
        IF ~dep.ok THEN Bad(c2)
        ELSE
          LET c3 == c2 + dep.second
              len3 == U64(len2 - dep.second)
          IN
          IF ~canAdvance(buf, c3, 1) THEN Bad(c3)
          ELSE
            LET weight == buf[c3 + 1]
                len4 == U64(len3 - 1)
            IN
            IF len4 # 0 THEN Bad(c3 + 1)
            ELSE Parsed(NONE, c3 + 1,
                        <<p.prioritizedType, p.dependencyType, p.exclusive,
                          id.first, dep.first, weight>>)

\* Mutant: bytes left over after the varint are not looked at.
parseOneVarint_IgnoresResidual(buf, c, length, code, mask) ==
  LET v == decodeQuicInteger(buf, c, length) IN
  IF ~v.ok THEN Parsed(code, c, <<>>)
  ELSE Parsed(NONE, c + v.second, <<BitOr(v.first, mask)>>)

\* parseCancelPush, parseGoaway and parseMaxPushId share one shape: a single
\* varint bounded by the frame length, no residual bytes; mask is OR-ed in.
parseOneVarint(buf, c, length, code, mask) ==
  LET v == decodeQuicInteger(buf, c, length) IN
  IF ~v.ok THEN Parsed(code, c, <<>>)
  ELSE IF U64(length - v.second) # 0 THEN Parsed(code, c + v.second, <<>>)
  ELSE Parsed(NONE, c + v.second, <<BitOr(v.first, mask)>>)

parseCancelPush(buf, c, length) ==
  parseOneVarint(buf, c, length, "HTTP_MALFORMED_FRAME_CANCEL_PUSH", kPushIdMask)

parseGoaway(buf, c, length) ==
  parseOneVarint(buf, c, length, "HTTP_MALFORMED_FRAME_GOAWAY", 0)

parseMaxPushId(buf, c, length) ==
  parseOneVarint(buf, c, length, "HTTP_MALFORMED_FRAME_MAX_PUSH_ID", kPushIdMask)

KnownSettingIds ==
  {SettingId.HEADER_TABLE_SIZE, SettingId.NUM_PLACEHOLDERS,
   SettingId.MAX_HEADER_LIST_SIZE, SettingId.QPACK_BLOCKED_STREAMS}

\* Mutant: the value is decoded with the default bound, not frameLength.
decodeSettingValue_IgnoresFrameLength(buf, c, frameLength, settingId) ==
  LET v == decodeQuicInteger(buf, c, kMaxVarintLen) IN
  IF ~v.ok
  THEN [err |-> "HTTP_MALFORMED_FRAME_SETTINGS", cur |-> c,
        frameLength |-> frameLength, has |-> FALSE, value |-> 0]
  ELSE [err |-> NONE, cur |-> c + v.second,
        frameLength |-> U64(frameLength - v.second),
        has |-> settingId \in KnownSettingIds, value |-> v.first]

\* Mutant: the value is returned for every setting id.
decodeSettingValue_ReportsEveryId(buf, c, frameLength, settingId) ==
  LET v == decodeQuicInteger(buf, c, frameLength) IN
  IF ~v.ok
  THEN [err |-> "HTTP_MALFORMED_FRAME_SETTINGS", cur |-> c,
        frameLength |-> frameLength, has |-> FALSE, value |-> 0]
  ELSE [err |-> NONE, cur |-> c + v.second,
        frameLength |-> U64(frameLength - v.second),
        has |-> TRUE, value |-> v.first]

\* Returns [err, cur, frameLength, has, value]: frameLength is the in/out
\* parameter, has/value the Optional<SettingValue>.
decodeSettingValue(buf, c, frameLength, settingId) ==
  LET v == decodeQuicInteger(buf, c, frameLength) IN
  IF ~v.ok
  THEN [err |-> "HTTP_MALFORMED_FRAME_SETTINGS", cur |-> c,
        frameLength |-> frameLength, has |-> FALSE, value |-> 0]
  ELSE [err |-> NONE, cur |-> c + v.second,
        frameLength |-> U64(frameLength - v.second),
        has |-> settingId \in KnownSettingIds, value |-> v.first]

RECURSIVE parseSettingsLoop(_, _, _, _)
\* The while (frameLength > 0) loop of parseSettings; settings is the deque
\* built so far, flattened to <<id1, value1, id2, value2, ...>>.
parseSettingsLoop(buf, c, frameLength, settings) ==
  IF frameLength = 0 THEN Parsed(NONE, c, settings)
  ELSE
    LET id == decodeQuicInteger(buf, c, frameLength) IN
    IF ~id.ok THEN Parsed("HTTP_MALFORMED_FRAME_SETTINGS", c, settings)
    ELSE
      LET sv == decodeSettingValue(buf, c + id.second,
                                   U64(frameLength - id.second), id.first)
      IN
      IF sv.err # NONE THEN Parsed(sv.err, sv.cur, settings)
      ELSE parseSettingsLoop(buf, sv.cur, sv.frameLength,
                             IF sv.has THEN settings \o <<id.first, sv.value>>
                             ELSE settings)

parseSettings(buf, c, length) == parseSettingsLoop(buf, c, length, <<>>)

\* out = <<pushId>> \o header block
parsePushPromise(buf, c, length) ==
  LET v == decodeQuicInteger(buf, c, length) IN
  IF ~v.ok THEN Parsed("HTTP_MALFORMED_FRAME_PUSH_PROMISE", c, <<>>)
  ELSE LET rest == U64(length - v.second) IN
       Parsed(NONE, c + v.second + rest,
              <<BitOr(v.first, kPushIdMask)>>
                \o SubSeq(buf, c + v.second + 1, c + v.second + rest))

\* ------------------------------------------------- HQFramer write operations
\* The queue is the sequence of bytes appended so far.  Each operation returns
\* [ok, ret, queue]: whether the WriteResult holds a value, that value, and the
\* queue when the call returns.
WriteOk(queue, n) == [ok |-> TRUE, ret |-> n, queue |-> queue]

WriteErr(queue) == [ok |-> FALSE, ret |-> 0, queue |-> queue]

\* quic::getQuicIntegerSize: the smallest class that holds value.
getQuicIntegerSize(value) ==
  IF value < 64 THEN [ok |-> TRUE, size |-> 1]
  ELSE IF value < 16384 THEN [ok |-> TRUE, size |-> 2]
  ELSE IF value < kVarintLimit THEN [ok |-> TRUE, size |-> 4]
  ELSE [ok |-> FALSE, size |-> 0]

\* quic::encodeQuicInteger: the bytes it hands to the appender.
encodeQuicInteger(value) ==
  IF value < 64 THEN [ok |-> TRUE, bytes |-> <<value>>]
  ELSE IF value < 16384
    THEN [ok |-> TRUE, bytes |-> <<64 + value \div 256, value % 256>>]
  ELSE IF value < kVarintLimit
    THEN [ok |-> TRUE,
          bytes |-> <<128 + value \div 16777216, (value \div 65536) % 256,
                      (value \div 256) % 256, value % 256>>]
  ELSE [ok |-> FALSE, bytes |-> <<>>]

writeFrameHeader(queue, type, length) ==
  IF ~encodeQuicInteger(type).ok THEN WriteErr(queue)
  ELSE IF ~encodeQuicInteger(length).ok
    THEN WriteErr(queue \o encodeQuicInteger(type).bytes)
  ELSE WriteOk(queue \o encodeQuicInteger(type).bytes
                     \o encodeQuicInteger(length).bytes,
               Len(encodeQuicInteger(type).bytes)
                 + Len(encodeQuicInteger(length).bytes))

\* What follows a call of writeFrameHeader that returned h: the error is
\* passed on, or the payload is appended and headerSize + payloadSize returned.
WritePayload(h, payloadSize, payload) ==
  IF ~h.ok THEN h ELSE WriteOk(h.queue \o payload, h.ret + payloadSize)

writeSimpleFrame(queue, type, data) ==
  WritePayload(writeFrameHeader(queue, type, Len(data)), Len(data), data)

writeData(queue, data) == writeSimpleFrame(queue, FrameType.DATA, data)

writeHeaders(queue, data) == writeSimpleFrame(queue, FrameType.HEADERS, data)

\* Mutant: the exclusive bit is not written.
encodePriorityFlags_DropsExclusive(priority) ==
  ( priority.prioritizedType * Shl(PriorityFlagBits.PRIORITIZED_TYPE_POS)
    + priority.dependencyType * Shl(PriorityFlagBits.DEPENDENCY_TYPE_POS) )
  % 256

\* Mutant: the dependency type is shifted to the empty bits.
encodePriorityFlags_DependencyInEmptyBits(priority) ==
  ( priority.prioritizedType * Shl(PriorityFlagBits.PRIORITIZED_TYPE_POS)
    + priority.dependencyType * Shl(PriorityFlagBits.PRIORITY_EMPTY_POS)
    + (IF priority.exclusive THEN PriorityFlagBits.PRIORITY_EXCLUSIVE_MASK ELSE 0) )
  % 256

encodePriorityFlags(priority) ==
  ( priority.prioritizedType * Shl(PriorityFlagBits.PRIORITIZED_TYPE_POS)
    + priority.dependencyType * Shl(PriorityFlagBits.DEPENDENCY_TYPE_POS)
    + (IF priority.exclusive THEN PriorityFlagBits.PRIORITY_EXCLUSIVE_MASK ELSE 0) )
  % 256

\* Mutant: the weight byte is left out of the precomputed size.
PriorityPayloadSize_OmitsWeight(priority) ==
  getQuicIntegerSize(priority.prioritizedElementId).size + 1
    + (IF priority.dependencyType # PriorityElementType.TREE_ROOT
       THEN getQuicIntegerSize(priority.elementDependencyId).size ELSE 0)

\* payloadSize of writePriority
PriorityPayloadSize(priority) ==
  getQuicIntegerSize(priority.prioritizedElementId).size + 2
    + (IF priority.dependencyType # PriorityElementType.TREE_ROOT
       THEN getQuicIntegerSize(priority.elementDependencyId).size ELSE 0)

\* The bytes writePriority hands to the appender after the header.
PriorityPayload(priority) ==
  <<encodePriorityFlags(priority)>>
    \o encodeQuicInteger(priority.prioritizedElementId).bytes
    \o (IF priority.dependencyType # PriorityElementType.TREE_ROOT
        THEN encodeQuicInteger(priority.elementDependencyId).bytes ELSE <<>>)
    \o <<priority.weight>>

writePriority(queue, priority) ==
  IF ~getQuicIntegerSize(priority.prioritizedElementId).ok THEN WriteErr(queue)
  ELSE IF /\ priority.dependencyType # PriorityElementType.TREE_ROOT
          /\ ~getQuicIntegerSize(priority.elementDependencyId).ok
    THEN WriteErr(queue)
  ELSE WritePayload(writeFrameHeader(queue, FrameType.PRIORITY,
                                     PriorityPayloadSize(priority)),
                    PriorityPayloadSize(priority), PriorityPayload(priority))

\* Mutant: the id is encoded as it was passed, the mask still set.
writeOneVarint_KeepsMask(writeBuf, type, id, mask) ==
  IF ~getQuicIntegerSize(id).ok THEN WriteErr(writeBuf)
  ELSE writeSimpleFrame(writeBuf, type, encodeQuicInteger(id).bytes)

\* writeCancelPush, writeGoaway and writeMaxPushId share one shape: the mask
\* (if any) is cleared, the size is asked for, the varint is encoded in a
\* queue of its own and written as a simple frame.
writeOneVarint(writeBuf, type, id, mask) ==
  IF ~getQuicIntegerSize(BitClear(id, mask)).ok THEN WriteErr(writeBuf)
  ELSE writeSimpleFrame(writeBuf, type, encodeQuicInteger(BitClear(id, mask)).bytes)

writeCancelPush(writeBuf, pushId) ==
  writeOneVarint(writeBuf, FrameType.CANCEL_PUSH, pushId, kPushIdMask)

RECURSIVE SettingsSize(_)
\* The first loop of writeSettings over settings = <<<<id, value>>, ...>>.
SettingsSize(settings) ==
  IF settings = <<>> THEN [ok |-> TRUE, size |-> 0]
  ELSE IF ~getQuicIntegerSize(settings[1][1]).ok
          \/ ~getQuicIntegerSize(settings[1][2]).ok
          \/ ~SettingsSize(Tail(settings)).ok
    THEN [ok |-> FALSE, size |-> 0]
  ELSE [ok |-> TRUE,
        size |-> getQuicIntegerSize(settings[1][1]).size
                   + getQuicIntegerSize(settings[1][2]).size
                   + SettingsSize(Tail(settings)).size]

RECURSIVE SettingsPayload(_)
\* The second loop of writeSettings.
SettingsPayload(settings) ==
  IF settings = <<>> THEN <<>>
  ELSE encodeQuicInteger(settings[1][1]).bytes
         \o encodeQuicInteger(settings[1][2]).bytes
         \o SettingsPayload(Tail(settings))

writeSettings(queue, settings) ==
  IF ~SettingsSize(settings).ok THEN WriteErr(queue)
  ELSE WritePayload(writeFrameHeader(queue, FrameType.SETTINGS,
                                     SettingsSize(settings).size),
                    SettingsSize(settings).size, SettingsPayload(settings))

writePushPromise(queue, pushId, data) ==
  IF ~getQuicIntegerSize(BitClear(pushId, kPushIdMask)).ok THEN WriteErr(queue)
  ELSE WritePayload(
         writeFrameHeader(queue, FrameType.PUSH_PROMISE,
                          getQuicIntegerSize(BitClear(pushId, kPushIdMask)).size
                            + Len(data)),
         getQuicIntegerSize(BitClear(pushId, kPushIdMask)).size + Len(data),
         encodeQuicInteger(BitClear(pushId, kPushIdMask)).bytes \o data)

writeGoaway(writeBuf, lastStreamId) ==
  writeOneVarint(writeBuf, FrameType.GOAWAY, lastStreamId, 0)

writeMaxPushId(writeBuf, maxPushId) ==
  writeOneVarint(writeBuf, FrameType.MAX_PUSH_ID, maxPushId, kPushIdMask)

\* ------------------------------------------------------------------ events
\* One record per callback invocation.  at is the offset in the stream that the
\* cursor had reached, pend the pendingDataFrameBytes_ of the loop iteration
\* that fired the callback.
Ev(cb, type, len, data, err, at, pend) ==
  [cb |-> cb, type |-> type, len |-> len, data |-> data, err |-> err,
   at |-> at, pend |-> pend]

PayloadCallback(type) ==
  CASE type = FrameType.DATA -> "onBody"
    [] type = FrameType.HEADERS -> "onHeaders"
    [] type = FrameType.PRIORITY -> "onPriority"
    [] type = FrameType.CANCEL_PUSH -> "onCancelPush"
    [] type = FrameType.SETTINGS -> "onSettings"
    [] type = FrameType.PUSH_PROMISE -> "onPushPromise"
    [] type = FrameType.GOAWAY -> "onGoaway"
    [] type = FrameType.MAX_PUSH_ID -> "onMaxPushId"
    [] OTHER -> "none"

DefinedTypes ==
  {FrameType.DATA, FrameType.HEADERS, FrameType.PRIORITY, FrameType.CANCEL_PUSH,
   FrameType.SETTINGS, FrameType.PUSH_PROMISE, FrameType.GOAWAY,
   FrameType.MAX_PUSH_ID}

\* ------------------------------------------------------------ HQFramedCodec
\* The codec's virtual parseX(cursor, header): the HQFramer parser, then the
\* structured callback when the parse succeeded.  Returns [err, cur, evs].
parseTyped(type, r, at, pend) ==
  [err |-> r.err, cur |-> r.cur,
   evs |-> IF r.err = NONE /\ ~(type = FrameType.DATA /\ r.out = <<>>)
           THEN <<Ev(PayloadCallback(type), type, Len(r.out), r.out, NONE, at, pend)>>
           ELSE <<>>]

\* Mutant: an unknown frame is accounted for but the cursor is not advanced.
parseFrame_UnknownNotSkipped(buf, c, type, length, at, pend) ==
  CASE type = FrameType.DATA ->
         parseTyped(type, parseData(buf, c, length), at, pend)
    [] type = FrameType.HEADERS ->
         parseTyped(type, parseHeaders(buf, c, length), at, pend)
    [] type = FrameType.PRIORITY ->
         parseTyped(type, parsePriority(buf, c, length), at, pend)
    [] type = FrameType.CANCEL_PUSH ->
         parseTyped(type, parseCancelPush(buf, c, length), at, pend)
    [] type = FrameType.SETTINGS ->
         parseTyped(type, parseSettings(buf, c, length), at, pend)
    [] type = FrameType.PUSH_PROMISE ->
         parseTyped(type, parsePushPromise(buf, c, length), at, pend)
    [] type = FrameType.GOAWAY ->
         parseTyped(type, parseGoaway(buf, c, length), at, pend)
    [] type = FrameType.MAX_PUSH_ID ->
         parseTyped(type, parseMaxPushId(buf, c, length), at, pend)
    [] OTHER ->
         [err |-> NONE, cur |-> c, evs |-> <<>>]

\* HQFramedCodec::parseFrame
parseFrame(buf, c, type, length, at, pend) ==
  CASE type = FrameType.DATA ->
         parseTyped(type, parseData(buf, c, length), at, pend)
    [] type = FrameType.HEADERS ->
         parseTyped(type, parseHeaders(buf, c, length), at, pend)
    [] type = FrameType.PRIORITY ->
         parseTyped(type, parsePriority(buf, c, length), at, pend)
    [] type = FrameType.CANCEL_PUSH ->
         parseTyped(type, parseCancelPush(buf, c, length), at, pend)
    [] type = FrameType.SETTINGS ->
         parseTyped(type, parseSettings(buf, c, length), at, pend)
    [] type = FrameType.PUSH_PROMISE ->
         parseTyped(type, parsePushPromise(buf, c, length), at, pend)
    [] type = FrameType.GOAWAY ->
         parseTyped(type, parseGoaway(buf, c, length), at, pend)
    [] type = FrameType.MAX_PUSH_ID ->
         parseTyped(type, parseMaxPushId(buf, c, length), at, pend)
    [] OTHER ->
         \* cursor.skip(curHeader_.length); return folly::none
         [err |-> NONE, cur |-> c + length, evs |-> <<>>]

\* checkFrameAllowed(type): the allowlist of the stream role given at
\* construction.  Unknown types are allowed on every stream.
checkFrameAllowed(role, type) ==
  CASE role = "CONTROL" /\ type \in {FrameType.DATA, FrameType.HEADERS,
                                     FrameType.PUSH_PROMISE}
         -> "HTTP_WRONG_STREAM"
    [] role = "REQUEST" /\ type \in {FrameType.CANCEL_PUSH, FrameType.SETTINGS,
                                     FrameType.GOAWAY, FrameType.MAX_PUSH_ID}
         -> "HTTP_WRONG_STREAM"
    [] OTHER -> NONE

\* callback_->...: records the event when a callback is registered; the
\* callback may call setParserPaused(true) (the pauseAt-th one of the call does).
Fire(s, ev) ==
  IF ~s.callback THEN s
  ELSE [s EXCEPT !.evs = Append(@, ev),
                 !.fired = @ + 1,
                 !.paused = @ \/ (s.fired + 1 = s.pauseAt)]

RECURSIVE FireAll(_, _)
FireAll(s, evs) ==
  IF evs = <<>> THEN s ELSE FireAll(Fire(s, Head(evs)), Tail(evs))

\* Mutant: totalBytesParsed_ is advanced only while no error is set.
Account_TotalSkipsErrors(s, parsed) ==
  IF s.bufLen < parsed THEN [s EXCEPT !.stop = "checkFailed"]
  ELSE [s EXCEPT !.bufLen = @ - parsed,
                 !.parsedTot = @ + parsed,
                 !.total = IF s.connError = NONE THEN U64(@ + parsed) ELSE @]

\* Lines 149-152: CHECK_GE(bufLen, parsed); bufLen -= parsed; parsedTot +=
\* parsed; totalBytesParsed_ += parsed.  A failed CHECK aborts the process.
Account(s, parsed) ==
  IF s.bufLen < parsed THEN [s EXCEPT !.stop = "checkFailed"]
  ELSE [s EXCEPT !.bufLen = @ - parsed,
                 !.parsedTot = @ + parsed,
                 !.total = U64(@ + parsed)]

\* Mutant: the allowlist is not consulted before the length is parsed.
StepHeaderType_SkipsAllowlist(s, buf) ==
  LET type == decodeQuicInteger(buf, s.c, kMaxVarintLen) IN
  IF ~type.ok THEN [s EXCEPT !.stop = "needMore"]
  ELSE Account([s EXCEPT !.curType = type.first, !.c = @ + type.second,
                         !.frameState = "FRAME_HEADER_LENGTH"], type.second)

\* Loop body, frameState_ == FRAME_HEADER_TYPE
StepHeaderType(s, buf) ==
  LET type == decodeQuicInteger(buf, s.c, kMaxVarintLen) IN
  IF ~type.ok THEN [s EXCEPT !.stop = "needMore"]
  ELSE
    LET s1 == [s EXCEPT !.curType = type.first, !.c = @ + type.second]
        res == checkFrameAllowed(s.role, type.first)
    IN
    IF res # NONE THEN [s1 EXCEPT !.connError = res, !.stop = "notAllowed"]
    ELSE Account([s1 EXCEPT !.frameState = "FRAME_HEADER_LENGTH"], type.second)

\* Mutant: a short read of the length varint forgets the type already parsed.
StepHeaderLength_RestartsOnShortRead(s, buf) ==
  LET length == decodeQuicInteger(buf, s.c, kMaxVarintLen) IN
  IF ~length.ok
  THEN [s EXCEPT !.stop = "needMore", !.frameState = "FRAME_HEADER_TYPE"]
  ELSE
    LET parsed == length.second
        s1 == Fire([s EXCEPT !.curLen = length.first, !.c = @ + length.second],
                   Ev("onFrameHeader", s.curType, length.first, <<>>, NONE,
                      s.base + s.c + length.second, 0))
        s2 == [s1 EXCEPT !.pending = length.first]
        s3 == IF s.curType = FrameType.DATA
              THEN [s2 EXCEPT !.frameState = "FRAME_PAYLOAD_STREAMING"]
              ELSE [s2 EXCEPT !.frameState = "FRAME_PAYLOAD"]
    IN Account(s3, parsed)

\* Mutant: onFrameHeader is called before curHeader_.length is assigned.
StepHeaderLength_ReportsStaleLength(s, buf) ==
  LET length == decodeQuicInteger(buf, s.c, kMaxVarintLen) IN
  IF ~length.ok THEN [s EXCEPT !.stop = "needMore"]
  ELSE
    LET parsed == length.second
        s1 == Fire([s EXCEPT !.curLen = length.first, !.c = @ + length.second],
                   Ev("onFrameHeader", s.curType, s.curLen, <<>>, NONE,
                      s.base + s.c + length.second, 0))
        s2 == [s1 EXCEPT !.pending = length.first]
        s3 == IF s.curType = FrameType.DATA
              THEN [s2 EXCEPT !.frameState = "FRAME_PAYLOAD_STREAMING"]
              ELSE [s2 EXCEPT !.frameState = "FRAME_PAYLOAD"]
    IN Account(s3, parsed)

\* Loop body, frameState_ == FRAME_HEADER_LENGTH
StepHeaderLength(s, buf) ==
  LET length == decodeQuicInteger(buf, s.c, kMaxVarintLen) IN
  IF ~length.ok THEN [s EXCEPT !.stop = "needMore"]
  ELSE
    LET parsed == length.second
        s1 == Fire([s EXCEPT !.curLen = length.first, !.c = @ + length.second],
                   Ev("onFrameHeader", s.curType, length.first, <<>>, NONE,
                      s.base + s.c + length.second, 0))
        s2 == [s1 EXCEPT !.pending = length.first]
        s3 == IF s.curType = FrameType.DATA
              THEN IF s.pr /\ length.first = kUnframedDataFrameLen
                   THEN Fire([s2 EXCEPT !.frameState =
                                "FRAME_PAYLOAD_PARTIALLY_RELIABLE_STREAMING"],
                             Ev("onUnframedBodyStarted", s.curType,
                                U64(s.total + parsed), <<>>, NONE,
                                s.base + s.c + length.second, 0))
                   ELSE [s2 EXCEPT !.frameState = "FRAME_PAYLOAD_STREAMING"]
              ELSE [s2 EXCEPT !.frameState = "FRAME_PAYLOAD"]
    IN Account(s3, parsed)

\* Loop body, frameState_ == FRAME_PAYLOAD
StepPayload(s, buf) ==
  IF s.bufLen >= s.curLen
  THEN LET r == parseFrame(buf, s.c, s.curType, s.curLen, s.base + s.c, 0)
           s1 == FireAll([s EXCEPT !.c = r.cur], r.evs)
       IN Account([s1 EXCEPT !.connError = r.err,
                             !.frameState = "FRAME_HEADER_TYPE"],
                  s.curLen)
  ELSE [s EXCEPT !.stop = "needMore"]

\* Mutant: the chunk is the whole buffer, not min(pending, bufLen).
StepPayloadStreaming_IgnoresPending(s, buf) ==
  LET auxLen == s.bufLen
      r == parseTyped(FrameType.DATA, parseData(buf, s.c, auxLen),
                      s.base + s.c, s.pending)
      s1 == FireAll([s EXCEPT !.c = r.cur], r.evs)
      left == IF s.pending > auxLen THEN s.pending - auxLen ELSE 0
  IN Account([s1 EXCEPT !.connError = r.err,
                        !.pending = left,
                        !.frameState = IF left = 0 THEN "FRAME_HEADER_TYPE" ELSE @],
             auxLen)

\* Mutant: with nothing pending the parser waits in the frame for a body.
StepPayloadStreaming_WaitsForBody(s, buf) ==
  IF s.pending = 0 THEN s
  ELSE Account(FireAll([s EXCEPT !.c = @ + Min(s.pending, s.bufLen)],
                       parseTyped(FrameType.DATA,
                                  parseData(buf, s.c, Min(s.pending, s.bufLen)),
                                  s.base + s.c, s.pending).evs),
               Min(s.pending, s.bufLen))

\* Mutant: the parser leaves the frame after every chunk.
StepPayloadStreaming_LeavesAfterChunk(s, buf) ==
  LET auxLen == Min(s.pending, s.bufLen)
      r == parseTyped(FrameType.DATA, parseData(buf, s.c, auxLen),
                      s.base + s.c, s.pending)
      s1 == FireAll([s EXCEPT !.c = r.cur], r.evs)
      left == U64(s.pending - auxLen)
  IN Account([s1 EXCEPT !.connError = r.err,
                        !.pending = left,
                        !.frameState = "FRAME_HEADER_TYPE"],
             auxLen)

\* Loop body, frameState_ == FRAME_PAYLOAD_STREAMING
StepPayloadStreaming(s, buf) ==
  LET auxLen == Min(s.pending, s.bufLen)
      r == parseTyped(FrameType.DATA, parseData(buf, s.c, auxLen),
                      s.base + s.c, s.pending)
      s1 == FireAll([s EXCEPT !.c = r.cur], r.evs)
      left == U64(s.pending - auxLen)
  IN Account([s1 EXCEPT !.connError = r.err,
                        !.pending = left,
                        !.frameState = IF left = 0 THEN "FRAME_HEADER_TYPE" ELSE @],
             auxLen)

\* Mutant: the length of the whole buffer is accounted for, not the bytes of
\* it that are left.
StepPayloadPartiallyReliable_CountsWholeBuffer(s, buf) ==
  LET s1 == Fire([s EXCEPT !.c = Len(buf)],
                 Ev("onUnframedBody", FrameType.DATA, Len(buf) - s.c,
                    SubSeq(buf, s.c + 1, Len(buf)), NONE, s.base + s.c, 0))
  IN Account(s1, Len(buf))

\* Loop body, frameState_ == FRAME_PAYLOAD_PARTIALLY_RELIABLE_STREAMING:
\* parsePartiallyReliableData(cursor) hands the rest of the buffer to the hook.
StepPayloadPartiallyReliable(s, buf) ==
  LET s1 == Fire([s EXCEPT !.c = Len(buf)],
                 Ev("onUnframedBody", FrameType.DATA, Len(buf) - s.c,
                    SubSeq(buf, s.c + 1, Len(buf)), NONE, s.base + s.c, 0))
  IN Account(s1, s.bufLen)

Step(s, buf) ==
  CASE s.frameState = "FRAME_HEADER_TYPE" -> StepHeaderType(s, buf)
    [] s.frameState = "FRAME_HEADER_LENGTH" -> StepHeaderLength(s, buf)
    [] s.frameState = "FRAME_PAYLOAD" -> StepPayload(s, buf)
    [] s.frameState = "FRAME_PAYLOAD_STREAMING" -> StepPayloadStreaming(s, buf)
    [] OTHER -> StepPayloadPartiallyReliable(s, buf)

RECURSIVE Loop_IgnoresPause(_, _)
\* Mutant: the loop condition does not look at parserPaused_.
Loop_IgnoresPause(s, buf) ==
  IF s.stop # "run" THEN s
  ELSE IF s.connError # NONE THEN [s EXCEPT !.stop = "error"]
  ELSE IF s.bufLen = 0 THEN [s EXCEPT !.stop = "drained"]
  ELSE Loop_IgnoresPause(Step(s, buf), buf)

RECURSIVE Loop(_, _)
\* while (connError_ == folly::none && bufLen > 0 && !parserPaused_) { ... }
\* stop records which exit was taken: a break of the body, or the condition.
Loop(s, buf) ==
  IF s.stop # "run" THEN s
  ELSE IF s.connError # NONE THEN [s EXCEPT !.stop = "error"]
  ELSE IF s.bufLen = 0 THEN [s EXCEPT !.stop = "drained"]
  ELSE IF s.paused THEN [s EXCEPT !.stop = "paused"]
  ELSE Loop(Step(s, buf), buf)

\* Mutant: the error is reported without pausing the parser.
checkConnectionError_DoesNotPause(s) ==
  IF s.connError # NONE /\ s.callback
  THEN [s EXCEPT !.evs = Append(@, Ev("onError", 0, 0, <<>>, s.connError, 0, 0))]
  ELSE s

\* HQFramedCodec::checkConnectionError
checkConnectionError(s) ==
  IF s.connError # NONE
  THEN LET s1 == [s EXCEPT !.paused = TRUE] IN
       IF s1.callback
       THEN [s1 EXCEPT !.evs = Append(@, Ev("onError", 0, 0, <<>>, s.connError,
                                             0, 0))]
       ELSE s1
  ELSE s

\* Mutant: the early return relies on the pause flag set with the error.
onFramedIngress_ReturnsEarlyOnlyWhilePaused(s, buf) ==
  IF s.connError # NONE /\ s.paused
  THEN [s EXCEPT !.stop = "erroredBefore"]
  ELSE checkConnectionError(Loop([s EXCEPT !.bufLen = Len(buf)], buf))

\* Mutant: no early return; the loop condition alone guards a codec in error.
onFramedIngress_NoEarlyReturn(s, buf) ==
  checkConnectionError(Loop([s EXCEPT !.bufLen = Len(buf)], buf))

\* HQFramedCodec::onFramedIngress: s holds the members of the codec, buf the
\* IOBuf of this call; the result holds the members afterwards, the callbacks
\* fired (evs), the return value (parsedTot) and the exit taken (stop).
onFramedIngress(s, buf) ==
  IF s.connError # NONE
  THEN [s EXCEPT !.stop = "erroredBefore"]
  ELSE checkConnectionError(Loop([s EXCEPT !.bufLen = Len(buf)], buf))

\* ------------------------------------------------------------- environment
RECURSIVE WireFrames(_, _)
\* The frames serialized in w from offset o on, by their headers alone:
\* <<[type, len, at]>>, at being the offset of the first payload byte.
WireFrames(w, o) ==
  IF o >= Len(w) THEN <<>>
  ELSE LET t == decodeQuicInteger(w, o, kMaxVarintLen) IN
       IF ~t.ok THEN <<>>
       ELSE LET l == decodeQuicInteger(w, o + t.second, kMaxVarintLen) IN
            IF ~l.ok THEN <<>>
            ELSE LET at == o + t.second + l.second IN
                 <<[type |-> t.first, len |-> l.first, at |-> at]>>
                   \o WireFrames(w, at + l.first)

\* Serialized frames the peer may send: <<type varint, length varint, payload>>.
Catalogue ==
  { <<0, 0>>,                    \* DATA, length 0
    <<0, 1, 97>>,                \* DATA "a"
    <<0, 2, 97, 98>>,            \* DATA "ab"
    <<1, 0>>,                    \* HEADERS, length 0
    <<1, 64, 1, 130>>,           \* HEADERS, length 1 as a 2-byte varint
    <<33, 0>>,                   \* unknown (grease) type 0x21, length 0
    <<33, 1, 4>>,                \* unknown type, one byte of payload
    <<2, 3, 48, 5, 16>>,         \* PRIORITY, dependency TREE_ROOT
    <<2, 3, 56, 5, 16>>,         \* PRIORITY, the top empty flag bit set
    <<2, 1, 240>>,               \* PRIORITY, prioritizedType TREE_ROOT
    <<4, 2, 1, 16>>,             \* SETTINGS (HEADER_TABLE_SIZE, 16)
    <<4, 1, 64>>,                \* SETTINGS, half of a 2-byte id
    <<3, 1, 7>>,                 \* CANCEL_PUSH 7
    <<7, 1, 4>>,                 \* GOAWAY 4
    <<5, 2, 3, 131>> }           \* PUSH_PROMISE 3, one byte of header block

RECURSIVE WiresUpTo(_)
\* Streams of at most k catalogue frames that fit in MaxWireLen bytes.
WiresUpTo(k) ==
  IF k = 0 THEN {<<>>}
  ELSE LET W == WiresUpTo(k - 1) IN
       W \cup {w \o f : <<w, f>> \in
                 {x \in W \X Catalogue : Len(x[1]) + Len(x[2]) <= MaxWireLen}}

Wires == WiresUpTo(MaxWireLen \div 2) \ {<<>>}

StreamRoles == {"REQUEST", "CONTROL"}

\* transportSupportsPartialReliability() decides something only when a DATA
\* header announces kUnframedDataFrameLen bytes (line 107), on a stream where
\* DATA is allowed; other streams are modelled once, with the default FALSE.
PartialReliabilityChoices(role, w) ==
  IF role = "REQUEST"
     /\ \E i \in 1 .. Len(WireFrames(w, 0)) :
          /\ WireFrames(w, 0)[i].type = FrameType.DATA
          /\ WireFrames(w, 0)[i].len = kUnframedDataFrameLen
  THEN BOOLEAN
  ELSE {FALSE}

\* ------------------------------------------------------------------- state
VARIABLES
  frameState_,             \* FrameState
  curHeader_,              \* [type, length]
  pendingDataFrameBytes_,
  totalBytesParsed_,
  connError_,              \* NONE or an HTTP3::ErrorCode
  parserPaused_,
  callback_,               \* TRUE iff a callback is registered (the session
                           \* registers one before the first byte arrives)
  streamRole,              \* decides checkFrameAllowed
  partialReliability,      \* transportSupportsPartialReliability()
  wire,                    \* the bytes the peer sends on this stream
  pos,                     \* how many of them onFramedIngress has consumed
  events,                  \* every callback fired so far
  lastRet,                 \* return value of the latest onFramedIngress call
  lastEnd,                 \* the latest call's buffer was wire[pos+1 .. lastEnd]
  lastStop,                \* how the latest call left its loop
  writeBuf,                \* the output IOBufQueue of the framer's caller
  lastWrite,               \* the latest write operation: its arguments, its
                           \* WriteResult and the queue it was given
  call                     \* the onFramedIngress call in progress, when it is
                           \* followed one loop iteration at a time: cursor,
                           \* bufLen, parsedTot and the members it works on

\* The header-decode verifier (HeaderDecodeInfo) of one header block.
VARIABLES
  msg,                     \* the HTTPMessage being filled
  decodeError,             \* NONE or an HPACK::DecodeError
  parsingError,            \* <<>> for the empty string, else the text's parts
  verifier,                \* the pseudo-header verifier of a request
  pseudoHeaderSeen_,
  regularHeaderSeen_,
  hasStatus_,
  contentLength_,          \* <<>> or <<the value held by the optional>>
  isRequest_,
  isRequestTrailers_,
  lastOnHeader,            \* the latest callback of the header decoder: its
                           \* arguments and, for onHeader, what it returned
  headerCalls              \* callbacks delivered so far

headerVars ==
  <<msg, decodeError, parsingError, verifier, pseudoHeaderSeen_,
    regularHeaderSeen_, hasStatus_, contentLength_, isRequest_,
    isRequestTrailers_, lastOnHeader, headerCalls>>

\* A default-constructed HTTPMessage, as far as the verifier touches it.
NewMessage ==
  [headers |-> <<>>, statusCode |-> 0, statusMessage |-> <<>>,
   request |-> <<>>, version |-> <<0, 0>>, ingressHeaderSize |-> 0]

\* A pseudo-header verifier that has seen nothing.
NewVerifier == [seen |-> {}, error |-> <<>>]

NoHeaderCall == [cb |-> "none", name |-> <<>>, value |-> <<>>, ret |-> TRUE]

\* HeaderDecodeInfo::init(isRequestIn, isRequestTrailersIn): the members
\* before the first field of the block.
HeaderDecodeInfoInit(isRequestIn, isRequestTrailersIn) ==
  /\ msg = NewMessage
  /\ decodeError = NONE
  /\ parsingError = <<>>
  /\ verifier = NewVerifier
  /\ pseudoHeaderSeen_ = FALSE
  /\ regularHeaderSeen_ = FALSE
  /\ hasStatus_ = FALSE
  /\ contentLength_ = <<>>
  /\ isRequest_ = isRequestIn
  /\ isRequestTrailers_ = isRequestTrailersIn
  /\ lastOnHeader = NoHeaderCall
  /\ headerCalls = 0

vars ==
  <<frameState_, curHeader_, pendingDataFrameBytes_, totalBytesParsed_, connError_,
    parserPaused_, callback_, streamRole, partialReliability, wire, pos, events,
    lastRet, lastEnd, lastStop, writeBuf, lastWrite, call, msg, decodeError,
    parsingError, verifier, pseudoHeaderSeen_, regularHeaderSeen_, hasStatus_,
    contentLength_, isRequest_, isRequestTrailers_, lastOnHeader, headerCalls>>

parserVars ==
  <<frameState_, curHeader_, pendingDataFrameBytes_, totalBytesParsed_, connError_,
    parserPaused_>>

\* No write operation has been called yet.
NoWrite ==
  [op |-> "none", type |-> 0, fields |-> <<>>, ok |-> TRUE, ret |-> 0,
   before |-> <<>>]

\* The members of a freshly constructed codec, as onFramedIngress takes them.
NewCodec(role, pr, cb) ==
  [frameState |-> "FRAME_HEADER_TYPE", curType |-> 0, curLen |-> 0, pending |-> 0,
   total |-> 0, connError |-> NONE, paused |-> FALSE, callback |-> cb,
   role |-> role, pr |-> pr, evs |-> <<>>, fired |-> 0, pauseAt |-> 0, c |-> 0,
   bufLen |-> 0, parsedTot |-> 0, stop |-> "run", base |-> 0]

\* No call of onFramedIngress is in progress.
NoCall == [NewCodec("REQUEST", FALSE, FALSE) EXCEPT !.stop = "idle"]

\* The codec as it stands, entering a call whose pauseAt-th callback pauses.
Codec(pauseAt) ==
  [frameState |-> frameState_, curType |-> curHeader_.type,
   curLen |-> curHeader_.length, pending |-> pendingDataFrameBytes_,
   total |-> totalBytesParsed_, connError |-> connError_, paused |-> parserPaused_,
   callback |-> callback_, role |-> streamRole, pr |-> partialReliability,
   evs |-> <<>>, fired |-> 0, pauseAt |-> pauseAt, c |-> 0, bufLen |-> 0,
   parsedTot |-> 0, stop |-> "run", base |-> pos]

Init ==
  /\ frameState_ = "FRAME_HEADER_TYPE"
  /\ curHeader_ = [type |-> 0, length |-> 0]
  /\ pendingDataFrameBytes_ = 0
  /\ totalBytesParsed_ = 0
  /\ connError_ = NONE
  /\ parserPaused_ = FALSE
  /\ callback_ = TRUE
  /\ wire \in Wires
  /\ streamRole \in StreamRoles
  /\ partialReliability \in PartialReliabilityChoices(streamRole, wire)
  /\ pos = 0
  /\ events = <<>>
  /\ lastRet = 0
  /\ lastEnd = 0
  /\ lastStop = "init"
  /\ writeBuf = <<>>
  /\ lastWrite = NoWrite
  /\ call = NoCall
  /\ HeaderDecodeInfoInit(TRUE, FALSE)

\* The members of the codec and the record of the call, taken from the
\* result r of a call whose buffer ended at avail.
Returned(r, avail) ==
  /\ frameState_' = r.frameState
  /\ curHeader_' = [type |-> r.curType, length |-> r.curLen]
  /\ pendingDataFrameBytes_' = r.pending
  /\ totalBytesParsed_' = r.total
  /\ connError_' = r.connError
  /\ parserPaused_' = r.paused
  /\ events' = events \o r.evs
  /\ pos' = pos + r.parsedTot
  /\ lastRet' = r.parsedTot
  /\ lastEnd' = avail
  /\ lastStop' = r.stop

\* The transport calls onFramedIngress with the bytes it holds: everything
\* from the first unconsumed byte up to avail, which never shrinks since the
\* bytes a call did not consume are presented again in front of the new ones.
\* A failed CHECK ends the process.
OnIngress(avail, pauseAt) ==
  /\ lastStop # "checkFailed"
  /\ avail \in pos .. Len(wire)
  /\ avail >= lastEnd
  /\ Returned(onFramedIngress(Codec(pauseAt), SubSeq(wire, pos + 1, avail)), avail)
  /\ UNCHANGED <<callback_, streamRole, partialReliability, wire, writeBuf,
                 lastWrite, call>>
  /\ UNCHANGED headerVars

\* setParserPaused(paused), called by the session between two calls.
SetParserPaused(paused) ==
  /\ lastStop # "checkFailed"
  /\ call = NoCall
  /\ parserPaused_' = paused
  /\ UNCHANGED <<frameState_, curHeader_, pendingDataFrameBytes_, totalBytesParsed_,
                 connError_, callback_, streamRole, partialReliability, wire, pos,
                 events, lastRet, lastEnd, lastStop, writeBuf, lastWrite, call>>
  /\ UNCHANGED headerVars

Next ==
  \/ \E avail \in 0 .. MaxWireLen, pauseAt \in 0 .. MaxPauseAt :
       OnIngress(avail, pauseAt)
  \/ \E paused \in BOOLEAN : SetParserPaused(paused)

Spec == Init /\ [][Next]_vars

\* A control stream that carries one SETTINGS frame: any payload over
\* SettingsBytes, any declared length up to the bytes that follow the header.
SettingsBytes == {1, 64, 128}

SettingsBodies == UNION {[1 .. n -> SettingsBytes] : n \in 0 .. MaxSettingsLen}

SettingsWires ==
  {<<FrameType.SETTINGS, l>> \o b : l \in 0 .. MaxSettingsLen, b \in SettingsBodies}

InitSettings ==
  /\ frameState_ = "FRAME_HEADER_TYPE"
  /\ curHeader_ = [type |-> 0, length |-> 0]
  /\ pendingDataFrameBytes_ = 0
  /\ totalBytesParsed_ = 0
  /\ connError_ = NONE
  /\ parserPaused_ = FALSE
  /\ callback_ = TRUE
  /\ wire \in {w \in SettingsWires : w[2] <= Len(w) - 2}
  /\ streamRole = "CONTROL"
  /\ partialReliability = FALSE
  /\ pos = 0
  /\ events = <<>>
  /\ lastRet = 0
  /\ lastEnd = 0
  /\ lastStop = "init"
  /\ writeBuf = <<>>
  /\ lastWrite = NoWrite
  /\ call = NoCall
  /\ HeaderDecodeInfoInit(TRUE, FALSE)

SpecSettings == InitSettings /\ [][Next]_vars

\* A stream that carries one frame of a kind that has a malformed-payload
\* code: any payload over PayloadBytes under a declared length that covers it,
\* alone or with a further byte behind it, on a stream whose role allows the
\* kind.
PayloadBytes == {1, 2, 64}

PayloadBodies == UNION {[1 .. n -> PayloadBytes] : n \in 0 .. MaxPayloadLen}

PayloadTypes ==
  {FrameType.DATA, FrameType.PRIORITY, FrameType.CANCEL_PUSH, FrameType.SETTINGS,
   FrameType.PUSH_PROMISE, FrameType.GOAWAY, FrameType.MAX_PUSH_ID}

\* What follows the frame on the stream: nothing yet, or the type byte of a
\* HEADERS frame.
PayloadTrails == {<<>>, <<FrameType.HEADERS>>}

PayloadWires ==
  {<<t, Len(x[1])>> \o x[1] \o x[2] :
     t \in PayloadTypes,
     x \in {y \in PayloadBodies \X PayloadTrails :
              Len(y[1]) + Len(y[2]) <= MaxPayloadLen}}

RoleFor(type) ==
  IF checkFrameAllowed("REQUEST", type) = NONE THEN "REQUEST" ELSE "CONTROL"

InitPayloads ==
  /\ frameState_ = "FRAME_HEADER_TYPE"
  /\ curHeader_ = [type |-> 0, length |-> 0]
  /\ pendingDataFrameBytes_ = 0
  /\ totalBytesParsed_ = 0
  /\ connError_ = NONE
  /\ parserPaused_ = FALSE
  /\ callback_ = TRUE
  /\ wire \in PayloadWires
  /\ streamRole = RoleFor(wire[1])
  /\ partialReliability = FALSE
  /\ pos = 0
  /\ events = <<>>
  /\ lastRet = 0
  /\ lastEnd = 0
  /\ lastStop = "init"
  /\ writeBuf = <<>>
  /\ lastWrite = NoWrite
  /\ call = NoCall
  /\ HeaderDecodeInfoInit(TRUE, FALSE)

SpecPayloads == InitPayloads /\ [][Next]_vars

\* ------------------------------------------- frames shorter than their bytes
\* A frame whose declared length is any number up to the bytes that follow
\* its header: the bytes behind the declared payload are in the buffer when
\* the payload parser runs.  1 is a one-byte varint, a known setting id, a
\* flags byte with the exclusive bit; 64 the first byte of a two-byte varint
\* and a flags byte that prioritizes a push stream.
ParserBytes == {1, 64}

ParserBodies == UNION {[1 .. n -> ParserBytes] : n \in 0 .. MaxPayloadLen}

ParserTypes == PayloadTypes \cup {FrameType.HEADERS}

ParserWires ==
  {<<t, x[2]>> \o x[1] :
     t \in ParserTypes,
     x \in {y \in ParserBodies \X (0 .. MaxPayloadLen) : y[2] <= Len(y[1])}}

InitParsers ==
  /\ frameState_ = "FRAME_HEADER_TYPE"
  /\ curHeader_ = [type |-> 0, length |-> 0]
  /\ pendingDataFrameBytes_ = 0
  /\ totalBytesParsed_ = 0
  /\ connError_ = NONE
  /\ parserPaused_ = FALSE
  /\ callback_ = TRUE
  /\ wire \in ParserWires
  /\ streamRole = RoleFor(wire[1])
  /\ partialReliability = FALSE
  /\ pos = 0
  /\ events = <<>>
  /\ lastRet = 0
  /\ lastEnd = 0
  /\ lastStop = "init"
  /\ writeBuf = <<>>
  /\ lastWrite = NoWrite
  /\ call = NoCall
  /\ HeaderDecodeInfoInit(TRUE, FALSE)

SpecParsers == InitParsers /\ [][Next]_vars

\* ------------------------------------------- the call, iteration by iteration
\* One evaluation of the loop condition (line 65) and, when it holds, of the
\* loop body (lines 66-152).
Iteration(s, buf) ==
  IF s.connError # NONE THEN [s EXCEPT !.stop = "error"]
  ELSE IF s.bufLen = 0 THEN [s EXCEPT !.stop = "drained"]
  ELSE IF s.paused THEN [s EXCEPT !.stop = "paused"]
  ELSE Step(s, buf)

\* The members of the codec as the call in progress has written them, and the
\* callbacks it has fired since it stood at `before`.
WrittenInPlace(r, before) ==
  /\ frameState_' = r.frameState
  /\ curHeader_' = [type |-> r.curType, length |-> r.curLen]
  /\ pendingDataFrameBytes_' = r.pending
  /\ totalBytesParsed_' = r.total
  /\ connError_' = r.connError
  /\ parserPaused_' = r.paused
  /\ events' = events \o SubSeq(r.evs, Len(before.evs) + 1, Len(r.evs))

\* Lines 55-64: the transport calls onFramedIngress; a codec in error returns
\* 0 at once, otherwise the cursor is set on the buffer and bufLen to its
\* length.
EnterIngress(avail, pauseAt) ==
  /\ call = NoCall
  /\ lastStop # "checkFailed"
  /\ avail \in pos .. Len(wire)
  /\ avail >= lastEnd
  /\ lastEnd' = avail
  /\ IF connError_ # NONE
     THEN /\ lastRet' = 0
          /\ lastStop' = "erroredBefore"
          /\ call' = call
     ELSE /\ call' = [Codec(pauseAt) EXCEPT !.bufLen = avail - pos]
          /\ UNCHANGED <<lastRet, lastStop>>
  /\ UNCHANGED <<frameState_, curHeader_, pendingDataFrameBytes_, totalBytesParsed_,
                 connError_, parserPaused_, callback_, streamRole,
                 partialReliability, wire, pos, events, writeBuf, lastWrite>>
  /\ UNCHANGED headerVars

\* Lines 65-153: the loop condition is tested and, if it holds, the body runs
\* once.
IterateLoop ==
  /\ call.stop = "run"
  /\ call' = Iteration(call, SubSeq(wire, pos + 1, lastEnd))
  /\ WrittenInPlace(call', call)
  /\ UNCHANGED <<callback_, streamRole, partialReliability, wire, pos, lastRet,
                 lastEnd, lastStop, writeBuf, lastWrite>>
  /\ UNCHANGED headerVars

\* The call whose loop ended as in r has returned.
ReturnedFrom(r) ==
  /\ WrittenInPlace(r, call)
  /\ pos' = pos + r.parsedTot
  /\ lastRet' = r.parsedTot
  /\ lastStop' = r.stop
  /\ call' = NoCall

\* Lines 154-155: checkConnectionError, return parsedTot.  A failed CHECK
\* has ended the process instead.
ReturnIngress ==
  /\ call.stop \notin {"idle", "run"}
  /\ ReturnedFrom(checkConnectionError(call))
  /\ UNCHANGED <<callback_, streamRole, partialReliability, wire, lastEnd,
                 writeBuf, lastWrite>>
  /\ UNCHANGED headerVars

NextLoop ==
  \/ \E avail \in 0 .. MaxWireLen, pauseAt \in 0 .. MaxPauseAt :
       EnterIngress(avail, pauseAt)
  \/ IterateLoop
  \/ ReturnIngress
  \/ \E paused \in BOOLEAN : SetParserPaused(paused)

\* The streams followed iteration by iteration are the short ones: a frame of
\* declared length 0 with a frame or body bytes behind it fits.
MaxLoopWireLen == 4

InitLoop == Init /\ Len(wire) <= MaxLoopWireLen

\* The thread that entered onFramedIngress keeps running: the loop is
\* iterated and the call returns as long as it can.
SpecLoop ==
  /\ InitLoop
  /\ [][NextLoop]_vars
  /\ WF_vars(IterateLoop)
  /\ WF_vars(ReturnIngress)

\* ------------------------------------------------------- the framer's caller
\* Arguments the caller passes to the write operations: payloads, integers of
\* the 1-, 2- and 4-byte classes and one that is not encodable, push ids in
\* their internal form, priority updates, lists of settings.
FramerData == {<<>>, <<97>>, <<97, 98>>}

FramerInts == {7, 64, 16384, kVarintLimit}

PushIds == {BitOr(v, kPushIdMask) : v \in FramerInts}

Priorities ==
  [prioritizedType : 0 .. PriorityElementType.TREE_ROOT,
   dependencyType : 0 .. PriorityElementType.TREE_ROOT,
   exclusive : BOOLEAN,
   prioritizedElementId : {7, kVarintLimit},
   elementDependencyId : {0, 64, kVarintLimit},
   weight : {16}]

SettingPairs ==
  {<<id, v>> : id \in {SettingId.HEADER_TABLE_SIZE, SettingId.NUM_PLACEHOLDERS},
               v \in {0, 64, kVarintLimit}}

SettingsLists ==
  {<<>>} \cup {<<a>> : a \in SettingPairs}
         \cup {<<a, b>> : a \in SettingPairs, b \in SettingPairs}

\* The fields of a PriorityUpdate in the order of parsePriority's out.
PriorityFields(priority) ==
  <<priority.prioritizedType, priority.dependencyType,
    IF priority.exclusive THEN 1 ELSE 0, priority.prioritizedElementId,
    priority.elementDependencyId, priority.weight>>

RECURSIVE SettingsFields(_)
\* <<<<id1, v1>>, <<id2, v2>>, ...>> as <<id1, v1, id2, v2, ...>>
SettingsFields(settings) ==
  IF settings = <<>> THEN <<>>
  ELSE settings[1] \o SettingsFields(Tail(settings))

InitFramer ==
  /\ frameState_ = "FRAME_HEADER_TYPE"
  /\ curHeader_ = [type |-> 0, length |-> 0]
  /\ pendingDataFrameBytes_ = 0
  /\ totalBytesParsed_ = 0
  /\ connError_ = NONE
  /\ parserPaused_ = FALSE
  /\ callback_ = TRUE
  /\ wire = <<>>
  /\ streamRole = "REQUEST"
  /\ partialReliability = FALSE
  /\ pos = 0
  /\ events = <<>>
  /\ lastRet = 0
  /\ lastEnd = 0
  /\ lastStop = "init"
  /\ writeBuf = <<>>
  /\ lastWrite = NoWrite
  /\ call = NoCall
  /\ HeaderDecodeInfoInit(TRUE, FALSE)

\* The call of a write operation returned r.
Wrote(op, type, fields, r) ==
  /\ writeBuf' = r.queue
  /\ lastWrite' = [op |-> op, type |-> type, fields |-> fields, ok |-> r.ok,
                   ret |-> r.ret, before |-> writeBuf]
  /\ UNCHANGED <<frameState_, curHeader_, pendingDataFrameBytes_, totalBytesParsed_,
                 connError_, parserPaused_, callback_, streamRole,
                 partialReliability, wire, pos, events, lastRet, lastEnd, lastStop,
                 call>>
  /\ UNCHANGED headerVars

WriteFrameHeader(type, length) ==
  /\ Len(writeBuf) <= MaxQueueLen
  /\ Wrote("writeFrameHeader", type, <<length>>,
           writeFrameHeader(writeBuf, type, length))

WriteData(data) ==
  /\ Len(writeBuf) <= MaxQueueLen
  /\ Wrote("writeData", FrameType.DATA, data, writeData(writeBuf, data))

WriteHeaders(data) ==
  /\ Len(writeBuf) <= MaxQueueLen
  /\ Wrote("writeHeaders", FrameType.HEADERS, data, writeHeaders(writeBuf, data))

WritePriority(priority) ==
  /\ Len(writeBuf) <= MaxQueueLen
  /\ Wrote("writePriority", FrameType.PRIORITY, PriorityFields(priority),
           writePriority(writeBuf, priority))

WriteCancelPush(pushId) ==
  /\ Len(writeBuf) <= MaxQueueLen
  /\ Wrote("writeCancelPush", FrameType.CANCEL_PUSH, <<pushId>>,
           writeCancelPush(writeBuf, pushId))

WriteSettings(settings) ==
  /\ Len(writeBuf) <= MaxQueueLen
  /\ Wrote("writeSettings", FrameType.SETTINGS, SettingsFields(settings),
           writeSettings(writeBuf, settings))

WritePushPromise(pushId, data) ==
  /\ Len(writeBuf) <= MaxQueueLen
  /\ Wrote("writePushPromise", FrameType.PUSH_PROMISE, <<pushId>> \o data,
           writePushPromise(writeBuf, pushId, data))

WriteGoaway(lastStreamId) ==
  /\ Len(writeBuf) <= MaxQueueLen
  /\ Wrote("writeGoaway", FrameType.GOAWAY, <<lastStreamId>>,
           writeGoaway(writeBuf, lastStreamId))

WriteMaxPushId(maxPushId) ==
  /\ Len(writeBuf) <= MaxQueueLen
  /\ Wrote("writeMaxPushId", FrameType.MAX_PUSH_ID, <<maxPushId>>,
           writeMaxPushId(writeBuf, maxPushId))

NextFramer ==
  \/ \E type \in {FrameType.DATA, 33, kVarintLimit}, length \in {0} \cup FramerInts :
       WriteFrameHeader(type, length)
  \/ \E data \in FramerData : WriteData(data)
  \/ \E data \in FramerData : WriteHeaders(data)
  \/ \E priority \in Priorities : WritePriority(priority)
  \/ \E pushId \in PushIds : WriteCancelPush(pushId)
  \/ \E settings \in SettingsLists : WriteSettings(settings)
  \/ \E pushId \in PushIds, data \in FramerData : WritePushPromise(pushId, data)
  \/ \E lastStreamId \in FramerInts : WriteGoaway(lastStreamId)
  \/ \E maxPushId \in PushIds : WriteMaxPushId(maxPushId)

SpecFramer == InitFramer /\ [][NextFramer]_vars

\* ------------------------------------------------------- HeaderDecodeInfo
\* Header names and values are sequences of characters, so that what the code
\* does with their text (the leading ':', the digits of a number, the
\* characters a name or a value may hold) is computed from the text.

\* HPACKHeaderName::getHeaderCode: the code of a common header name,
\* HTTP_HEADER_OTHER for every other name.
getHeaderCode(name) ==
  CASE name = <<":", "m", "e", "t", "h", "o", "d">> -> "HTTP_HEADER_COLON_METHOD"
    [] name = <<":", "s", "c", "h", "e", "m", "e">> -> "HTTP_HEADER_COLON_SCHEME"
    [] name = <<":", "a", "u", "t", "h", "o", "r", "i", "t", "y">> -> "HTTP_HEADER_COLON_AUTHORITY"
    [] name = <<":", "p", "a", "t", "h">> -> "HTTP_HEADER_COLON_PATH"
    [] name = <<":", "p", "r", "o", "t", "o", "c", "o", "l">> -> "HTTP_HEADER_COLON_PROTOCOL"
    [] name = <<":", "s", "t", "a", "t", "u", "s">> -> "HTTP_HEADER_COLON_STATUS"
    [] name = <<"c", "o", "n", "n", "e", "c", "t", "i", "o", "n">> -> "HTTP_HEADER_CONNECTION"
    [] name = <<"c", "o", "n", "t", "e", "n", "t", "-", "l", "e", "n", "g", "t", "h">> -> "HTTP_HEADER_CONTENT_LENGTH"
    [] name = <<"c", "o", "o", "k", "i", "e">> -> "HTTP_HEADER_COOKIE"
    [] OTHER -> "HTTP_HEADER_OTHER"

\* folly::StringPiece::startsWith(char)
startsWith(text, ch) == text # <<>> /\ text[1] = ch

Digits == {"0", "1", "2", "3", "4", "5", "6", "7", "8", "9"}

DigitValue(ch) ==
  CASE ch = "0" -> 0 [] ch = "1" -> 1 [] ch = "2" -> 2 [] ch = "3" -> 3
    [] ch = "4" -> 4 [] ch = "5" -> 5 [] ch = "6" -> 6 [] ch = "7" -> 7
    [] ch = "8" -> 8 [] OTHER -> 9

RECURSIVE DecimalValue(_, _)
\* The number written by the digits of text, after acc.
DecimalValue(text, acc) ==
  IF text = <<>> THEN acc
  ELSE DecimalValue(Tail(text), 10 * acc + DigitValue(Head(text)))

\* folly::tryTo<uint32_t>(StringPiece): a value when the text is a decimal
\* number (the texts of the model are too short to overflow).
tryToUnsigned(text) ==
  IF text # <<>> /\ \A i \in 1 .. Len(text) : text[i] \in Digits
  THEN [ok |-> TRUE, num |-> DecimalValue(text, 0)]
  ELSE [ok |-> FALSE, num |-> 0]

\* folly::tryTo<int32_t>(StringPiece): as above, with an optional sign.
tryToSigned(text) ==
  IF startsWith(text, "-")
  THEN [ok |-> tryToUnsigned(Tail(text)).ok, num |-> 0 - tryToUnsigned(Tail(text)).num]
  ELSE tryToUnsigned(text)

\* CodecUtil::validateHeaderName: a non-empty token.
validateHeaderName(name) ==
  /\ name # <<>>
  /\ \A i \in 1 .. Len(name) :
       name[i] \notin {" ", ":", ",", ";", "=", "/", "\n", "\r", "NUL"}

\* CodecUtil::validateHeaderValue(value, STRICT): no CR, LF or NUL.
validateHeaderValue(value) ==
  \A i \in 1 .. Len(value) : value[i] \notin {"\n", "\r", "NUL"}

\* HTTPMessage::getDefaultReason
getDefaultReason(code) ==
  CASE code = 200 -> "OK"
    [] code = 204 -> "No Content"
    [] OTHER -> "-"

\* The members of a HeaderDecodeInfo as the operations below take them.
HeaderInfo ==
  [msg |-> msg, decodeError |-> decodeError, parsingError |-> parsingError,
   verifier |-> verifier, pseudoHeaderSeen |-> pseudoHeaderSeen_,
   regularHeaderSeen |-> regularHeaderSeen_, hasStatus |-> hasStatus_,
   contentLength |-> contentLength_, isRequest |-> isRequest_,
   isRequestTrailers |-> isRequestTrailers_, ret |-> TRUE]

\* parsingError = ...; return false;
Reject(h, text) == [h EXCEPT !.parsingError = text, !.ret = FALSE]

RequestPseudoHeaders ==
  {"HTTP_HEADER_COLON_METHOD", "HTTP_HEADER_COLON_SCHEME",
   "HTTP_HEADER_COLON_AUTHORITY", "HTTP_HEADER_COLON_PATH",
   "HTTP_HEADER_COLON_PROTOCOL"}

\* verifier.setMethod / setScheme / setAuthority / setPath /
\* setUpgradeProtocol: each pseudo-header once, with a well-formed value; the
\* setter keeps its error text in the verifier and returns false.  Lines 57-59:
\* onHeader returns false without touching parsingError.
verifierSet(h, code, value) ==
  IF code \in h.verifier.seen
  THEN [h EXCEPT !.verifier.error = <<"Duplicate pseudo header">>, !.ret = FALSE]
  ELSE IF value = <<>> \/ ~validateHeaderValue(value)
    THEN [h EXCEPT !.verifier.error = <<"Invalid pseudo header value">>, !.ret = FALSE]
  ELSE [h EXCEPT !.verifier.seen = @ \cup {code},
                 !.msg.request = Append(@, <<code, value>>),
                 !.ret = TRUE]

\* Mutant: a later :status replaces the earlier one.
onStatus_TakesLatest(h, value) ==
  IF /\ tryToSigned(value).ok
     /\ tryToSigned(value).num >= 100
     /\ tryToSigned(value).num <= 999
  THEN [h EXCEPT !.hasStatus = TRUE,
                 !.msg.statusCode = tryToSigned(value).num,
                 !.msg.statusMessage = getDefaultReason(tryToSigned(value).num),
                 !.ret = TRUE]
  ELSE Reject([h EXCEPT !.hasStatus = TRUE], <<"Malformed status code=", value>>)

\* Mutant: the status code has no upper limit.
onStatus_NoUpperLimit(h, value) ==
  IF h.hasStatus THEN Reject(h, <<"Duplicate status">>)
  ELSE IF tryToSigned(value).ok /\ tryToSigned(value).num >= 100
    THEN [h EXCEPT !.hasStatus = TRUE,
                   !.msg.statusCode = tryToSigned(value).num,
                   !.msg.statusMessage = getDefaultReason(tryToSigned(value).num),
                   !.ret = TRUE]
  ELSE Reject([h EXCEPT !.hasStatus = TRUE], <<"Malformed status code=", value>>)

\* Lines 62-77: the :status of a response.
onStatus(h, value) ==
  IF h.hasStatus THEN Reject(h, <<"Duplicate status">>)
  ELSE IF /\ tryToSigned(value).ok
          /\ tryToSigned(value).num >= 100
          /\ tryToSigned(value).num <= 999
    THEN [h EXCEPT !.hasStatus = TRUE,
                   !.msg.statusCode = tryToSigned(value).num,
                   !.msg.statusMessage = getDefaultReason(tryToSigned(value).num),
                   !.ret = TRUE]
  ELSE Reject([h EXCEPT !.hasStatus = TRUE], <<"Malformed status code=", value>>)

\* Mutant: a pseudo-header is taken wherever it stands in the block.
onPseudoHeader_AnyPosition(h, name, value) ==
  IF h.isRequest
  THEN IF getHeaderCode(name) \in RequestPseudoHeaders
       THEN verifierSet(h, getHeaderCode(name), value)
       ELSE Reject(h, <<"Invalid req header name=", name>>)
  ELSE IF getHeaderCode(name) = "HTTP_HEADER_COLON_STATUS" THEN onStatus(h, value)
  ELSE Reject(h, <<"Invalid resp header name=", name>>)

\* Lines 29-82: a name that starts with ':'; pseudoHeaderSeen_ is set already.
onPseudoHeader(h, name, value) ==
  IF h.regularHeaderSeen THEN Reject(h, <<"Illegal pseudo header name=", name>>)
  ELSE IF h.isRequest
    THEN IF getHeaderCode(name) \in RequestPseudoHeaders
         THEN verifierSet(h, getHeaderCode(name), value)
         ELSE Reject(h, <<"Invalid req header name=", name>>)
  ELSE IF getHeaderCode(name) = "HTTP_HEADER_COLON_STATUS" THEN onStatus(h, value)
  ELSE Reject(h, <<"Invalid resp header name=", name>>)

\* Lines 99-113: the name and value checks, then msg->getHeaders().add; an
\* entry of the list is <<code, name (for HTTP_HEADER_OTHER), value>>.
addHeader(h, name, value) ==
  IF ~( getHeaderCode(name) # "HTTP_HEADER_OTHER" \/ validateHeaderName(name) )
     \/ ~validateHeaderValue(value)
  THEN Reject(h, <<"Bad header value: name=", name, " value=", value>>)
  ELSE [h EXCEPT !.msg.headers =
                   Append(@, <<getHeaderCode(name),
                               IF getHeaderCode(name) = "HTTP_HEADER_OTHER"
                               THEN name ELSE <<>>,
                               value>>),
                 !.ret = TRUE]

\* Lines 83-113: a regular header; regularHeaderSeen_ is set already.
onRegularHeader(h, name, value) ==
  IF getHeaderCode(name) = "HTTP_HEADER_CONNECTION"
  THEN Reject(h, <<"HTTP/2 Message with Connection header">>)
  ELSE IF getHeaderCode(name) = "HTTP_HEADER_CONTENT_LENGTH"
    THEN IF h.contentLength # <<>> /\ h.contentLength # <<tryToUnsigned(value).num>>
         THEN Reject(h, <<"Multiple content-length headers">>)
         ELSE addHeader([h EXCEPT !.contentLength = <<tryToUnsigned(value).num>>],
                        name, value)
  ELSE addHeader(h, name, value)

\* Mutant: only a decode error makes the verifier ignore a field.
onHeader_IgnoresParsingError(h, name, value) ==
  IF h.decodeError # NONE THEN [h EXCEPT !.ret = TRUE]
  ELSE IF startsWith(name, ":")
    THEN onPseudoHeader([h EXCEPT !.pseudoHeaderSeen = TRUE], name, value)
  ELSE onRegularHeader([h EXCEPT !.regularHeaderSeen = TRUE], name, value)

\* HeaderDecodeInfo::onHeader
onHeader(h, name, value) ==
  IF h.decodeError # NONE \/ h.parsingError # <<>> THEN [h EXCEPT !.ret = TRUE]
  ELSE IF startsWith(name, ":")
    THEN onPseudoHeader([h EXCEPT !.pseudoHeaderSeen = TRUE], name, value)
  ELSE onRegularHeader([h EXCEPT !.regularHeaderSeen = TRUE], name, value)

IsCookie(field) == field[1] = "HTTP_HEADER_COOKIE"

IsNotCookie(field) == ~IsCookie(field)

RECURSIVE Joined(_)
\* HTTPHeaders::combine(HTTP_HEADER_COOKIE, "; ") over the cookie fields
Joined(fields) ==
  IF fields = <<>> THEN <<>>
  ELSE IF Len(fields) = 1 THEN fields[1][3]
  ELSE fields[1][3] \o <<";", " ">> \o Joined(Tail(fields))

\* Lines 120-125: the cookie headers replaced by one that holds them all.
combineCookies(headers) ==
  IF Joined(SelectSeq(headers, IsCookie)) = <<>> THEN headers
  ELSE Append(SelectSeq(headers, IsNotCookie),
              <<"HTTP_HEADER_COOKIE", <<>>, Joined(SelectSeq(headers, IsCookie))>>)

\* verifier.validate(): the error of a setter, or a request without :method.
verifierValidate(v) ==
  IF v.error # <<>> THEN v
  ELSE IF "HTTP_HEADER_COLON_METHOD" \notin v.seen
    THEN [v EXCEPT !.error = <<"Malformed request: missing :method">>]
  ELSE v

\* Mutant: only explicit request trailers are checked for pseudo-headers.
completeHeaders_RequestTrailersOnly(h, decodedSize) ==
  IF h.isRequestTrailers /\ h.pseudoHeaderSeen
  THEN [h EXCEPT !.parsingError = <<"Pseudo headers forbidden in trailers.">>]
  ELSE [h EXCEPT !.msg.version = <<1, 1>>,
                 !.msg.ingressHeaderSize = decodedSize]

\* Lines 132-138 of onHeadersComplete
completeHeaders(h, decodedSize) ==
  IF /\ h.isRequestTrailers \/ (~h.isRequest /\ ~h.hasStatus)
     /\ h.pseudoHeaderSeen
  THEN [h EXCEPT !.parsingError = <<"Pseudo headers forbidden in trailers.">>]
  ELSE [h EXCEPT !.msg.version = <<1, 1>>,
                 !.msg.ingressHeaderSize = decodedSize]

\* HeaderDecodeInfo::onHeadersComplete
onHeadersComplete(h, decodedSize) ==
  IF h.isRequest /\ ~h.isRequestTrailers
  THEN IF verifierValidate(h.verifier).error # <<>>
       THEN [h EXCEPT !.msg.headers = combineCookies(@),
                      !.verifier = verifierValidate(@),
                      !.parsingError = verifierValidate(h.verifier).error]
       ELSE completeHeaders([h EXCEPT !.msg.headers = combineCookies(@)],
                            decodedSize)
  ELSE completeHeaders(h, decodedSize)

\* The fields the header decoder may deliver.
MaxHeaderCalls == 3

HeaderFields ==
  { <<<<":", "m", "e", "t", "h", "o", "d">>, <<"G", "E", "T">>>>,
    <<<<":", "m", "e", "t", "h", "o", "d">>, <<>>>>,
    <<<<":", "p", "a", "t", "h">>, <<"/">>>>,
    <<<<":", "b", "o", "g", "u", "s">>, <<"1">>>>,
    <<<<":", "s", "t", "a", "t", "u", "s">>, <<"2", "0", "0">>>>,
    <<<<":", "s", "t", "a", "t", "u", "s">>, <<"2", "0", "4">>>>,
    <<<<":", "s", "t", "a", "t", "u", "s">>, <<"9", "9">>>>,
    <<<<":", "s", "t", "a", "t", "u", "s">>, <<"2", "x">>>>,
    <<<<":", "s", "t", "a", "t", "u", "s">>, <<"1", "0", "0", "0">>>>,
    <<<<"c", "o", "n", "n", "e", "c", "t", "i", "o", "n">>, <<"c", "l", "o", "s", "e">>>>,
    <<<<"c", "o", "n", "t", "e", "n", "t", "-", "l", "e", "n", "g", "t", "h">>, <<"4", "2">>>>,
    <<<<"c", "o", "n", "t", "e", "n", "t", "-", "l", "e", "n", "g", "t", "h">>, <<"7">>>>,
    <<<<"c", "o", "n", "t", "e", "n", "t", "-", "l", "e", "n", "g", "t", "h">>, <<"0">>>>,
    <<<<"c", "o", "n", "t", "e", "n", "t", "-", "l", "e", "n", "g", "t", "h">>, <<"x">>>>,
    <<<<"c", "o", "o", "k", "i", "e">>, <<"a", "=", "1">>>>,
    <<<<"x", "-", "i", "d">>, <<"7">>>>,
    <<<<"x", " ", "i", "d">>, <<"7">>>>,
    <<<<"x", "-", "i", "d">>, <<"a", "\n", "b">>>> }

DecodedSizes == {12}

DecodeErrors == {"HEADERS_TOO_LARGE"}

\* The header block of a request, of a response, or trailers of either; the
\* framing codec and the framer are idle.
InitHeaders ==
  /\ frameState_ = "FRAME_HEADER_TYPE"
  /\ curHeader_ = [type |-> 0, length |-> 0]
  /\ pendingDataFrameBytes_ = 0
  /\ totalBytesParsed_ = 0
  /\ connError_ = NONE
  /\ parserPaused_ = FALSE
  /\ callback_ = TRUE
  /\ wire = <<>>
  /\ streamRole = "REQUEST"
  /\ partialReliability = FALSE
  /\ pos = 0
  /\ events = <<>>
  /\ lastRet = 0
  /\ lastEnd = 0
  /\ lastStop = "init"
  /\ writeBuf = <<>>
  /\ lastWrite = NoWrite
  /\ call = NoCall
  /\ \E isRequestIn \in BOOLEAN, isRequestTrailersIn \in BOOLEAN :
       /\ isRequestTrailersIn => isRequestIn
       /\ HeaderDecodeInfoInit(isRequestIn, isRequestTrailersIn)

\* The members after a callback cb(name, value) that left them as in r.
HeaderReturned(r, cb, name, value) ==
  /\ msg' = r.msg
  /\ decodeError' = r.decodeError
  /\ parsingError' = r.parsingError
  /\ verifier' = r.verifier
  /\ pseudoHeaderSeen_' = r.pseudoHeaderSeen
  /\ regularHeaderSeen_' = r.regularHeaderSeen
  /\ hasStatus_' = r.hasStatus
  /\ contentLength_' = r.contentLength
  /\ lastOnHeader' = [cb |-> cb, name |-> name, value |-> value, ret |-> r.ret]
  /\ headerCalls' = headerCalls + 1
  /\ UNCHANGED <<isRequest_, isRequestTrailers_>>
  /\ UNCHANGED <<frameState_, curHeader_, pendingDataFrameBytes_, totalBytesParsed_,
                 connError_, parserPaused_, callback_, streamRole,
                 partialReliability, wire, pos, events, lastRet, lastEnd, lastStop,
                 writeBuf, lastWrite, call>>

\* The header decoder delivers a field.
OnHeader(name, value) ==
  /\ headerCalls < MaxHeaderCalls
  /\ lastOnHeader.cb # "onHeadersComplete"
  /\ HeaderReturned(onHeader(HeaderInfo, name, value), "onHeader", name, value)

\* The header decoder reports the end of the block.
OnHeadersComplete(decodedSize) ==
  /\ lastOnHeader.cb # "onHeadersComplete"
  /\ HeaderReturned(onHeadersComplete(HeaderInfo, decodedSize),
                    "onHeadersComplete", <<>>, <<>>)

\* The header decoder fails: the owner of the verifier stores the error in
\* decodeError (onDecodeError).
OnDecodeError(err) ==
  /\ lastOnHeader.cb # "onHeadersComplete"
  /\ decodeError = NONE
  /\ HeaderReturned([HeaderInfo EXCEPT !.decodeError = err], "onDecodeError",
                    <<>>, <<>>)

NextHeaders ==
  \/ \E field \in HeaderFields : OnHeader(field[1], field[2])
  \/ \E decodedSize \in DecodedSizes : OnHeadersComplete(decodedSize)
  \/ \E err \in DecodeErrors : OnDecodeError(err)

SpecHeaders == InitHeaders /\ [][NextHeaders]_vars

\* ------------------------------------------------------ reference notions
\* What the claims below compare the parser with.

IsPrefix(a, b) == Len(a) <= Len(b) /\ SubSeq(b, 1, Len(a)) = a

IsHeaderEvent(e) == e.cb = "onFrameHeader"

IsErrorEvent(e) == e.cb = "onError"

PayloadCallbacks ==
  {"onBody", "onHeaders", "onPriority", "onCancelPush", "onSettings",
   "onPushPromise", "onGoaway", "onMaxPushId", "none"}

HeaderEvents == SelectSeq(events, IsHeaderEvent)

ErrorEvents == SelectSeq(events, IsErrorEvent)

RECURSIVE Flat(_)
\* A callback sequence with every body chunk split into its bytes and the
\* bookkeeping fields dropped, so that two chunkings of one body compare equal.
Flat(evs) ==
  IF evs = <<>> THEN <<>>
  ELSE LET e == Head(evs) IN
       (IF e.cb \in {"onBody", "onUnframedBody"}
        THEN [i \in 1 .. Len(e.data) |-> <<e.cb, e.type, e.data[i], <<>>, e.err>>]
        ELSE << <<e.cb, e.type, e.len, e.data, e.err>> >>)
       \o Flat(Tail(evs))

\* The same stream handed to a fresh codec in one call that no callback pauses.
WholeRun == onFramedIngress(NewCodec(streamRole, partialReliability, callback_), wire)

\* The latest call was given every byte of the stream and did not stop on a pause.
FedToEnd ==
  \/ connError_ # NONE
  \/ pos = Len(wire)
  \/ lastEnd = Len(wire) /\ lastStop \in {"drained", "needMore"}

\* ------------------------------------------------------------------ claims

\* C1: however the stream is cut into chunks (unconsumed bytes presented again
\* in front of the next chunk), the callbacks fired so far are a prefix of those
\* of a single call on the whole stream, and equal to them once the last chunk
\* has been parsed; a body is compared as the concatenation of its chunks.
C1_PartitionEquivalence ==
  LET whole == Flat(WholeRun.evs)
      chunked == Flat(events)
  IN /\ IsPrefix(chunked, whole)
     /\ FedToEnd => chunked = whole

\* C1 witness: a stream parsed to its end without error in at least two calls
\* that each consumed bytes, with a body delivered in two chunks.
C1_Witness ==
  /\ FedToEnd /\ connError_ = NONE /\ lastStop = "drained"
  /\ 0 < lastRet /\ lastRet < pos /\ pos = Len(wire)
  /\ \E i \in 1 .. Len(events) - 1 :
       events[i].cb = "onBody" /\ events[i + 1].cb = "onBody"

\* C2: once connError_ is set, an onFramedIngress call returns 0 and changes
\* neither the parser state, the callbacks fired nor the bytes consumed, also
\* after setParserPaused(false).
C2_NoOpAfterError ==
  [][connError_ # NONE =>
       /\ UNCHANGED <<frameState_, curHeader_, pendingDataFrameBytes_,
                      totalBytesParsed_, connError_, events, pos>>
       /\ (<<lastRet, lastEnd, lastStop>>' # <<lastRet, lastEnd, lastStop>>
             => lastRet' = 0 /\ parserPaused_' = parserPaused_)]_vars

\* C2 witness: after the error the pause flag was cleared and a call with a
\* non-empty buffer returned.
C2_Witness ==
  /\ connError_ # NONE /\ ~parserPaused_
  /\ lastStop = "erroredBefore" /\ lastEnd > pos /\ lastRet = 0

\* C3: onError fires at most once, and no callback fires after it.
C3_ErrorOnceAndLast ==
  /\ Len(ErrorEvents) <= 1
  /\ \A i \in 1 .. Len(events) : IsErrorEvent(events[i]) => i = Len(events)
  /\ callback_ /\ connError_ # NONE => Len(ErrorEvents) = 1

\* C3 witness: callbacks fired, then onError, then further calls with bytes.
C3_Witness ==
  /\ Len(events) >= 3 /\ IsErrorEvent(events[Len(events)])
  /\ lastStop = "erroredBefore" /\ lastEnd > pos

\* C4: the onFrameHeader callbacks are the headers of the frames on the wire,
\* in wire order, each fired once its length varint is consumed and only once,
\* with the declared length and the raw type; a payload callback comes after
\* the onFrameHeader of its frame.
C4_FrameHeaderPerFrame ==
  LET hs == HeaderEvents
      fs == WireFrames(wire, 0)
  IN /\ Len(hs) <= Len(fs)
     /\ \A k \in 1 .. Len(hs) :
          /\ hs[k].type = fs[k].type
          /\ hs[k].len = fs[k].len
          /\ hs[k].at = fs[k].at
     /\ ( /\ callback_ /\ connError_ = NONE
          /\ frameState_ # "FRAME_PAYLOAD_PARTIALLY_RELIABLE_STREAMING" )
        => Len(hs) = Cardinality({k \in 1 .. Len(fs) : fs[k].at <= pos})
     /\ \A i \in 1 .. Len(events) :
          events[i].cb \in PayloadCallbacks =>
            \E j \in 1 .. i - 1 :
              /\ IsHeaderEvent(events[j])
              /\ events[j].type = events[i].type
              /\ \A m \in j + 1 .. i - 1 : ~IsHeaderEvent(events[m])

\* C4 witness: two frames reported with their payloads, over several calls
\* that consumed bytes.
C4_Witness ==
  /\ Len(HeaderEvents) = 2 /\ connError_ = NONE
  /\ Len(events) = 4 /\ events[2].cb \in PayloadCallbacks
  /\ events[4].cb \in PayloadCallbacks
  /\ 0 < lastRet /\ lastRet < pos

RECURSIVE BodyBytes(_, _, _)
\* Number of body bytes delivered by events a .. b of the log.
BodyBytes(evs, a, b) ==
  IF a > b THEN 0 ELSE Len(evs[a].data) + BodyBytes(evs, a + 1, b)

\* The index of the latest onFrameHeader before event i (0 if there is none).
HeaderBefore(i) ==
  LET js == {j \in 1 .. i - 1 : IsHeaderEvent(events[j])} IN
  IF js = {} THEN 0 ELSE CHOOSE j \in js : \A k \in js : k <= j

\* The header of the frame serialized at offset o of the stream.
FrameAt(o) == WireFrames(wire, o)

C6_ChunksWithinFrame ==
  /\ \A i \in 1 .. Len(events) :
       events[i].cb = "onBody" =>
         LET j == HeaderBefore(i)
             e == events[i]
         IN /\ j > 0
            /\ events[j].type = FrameType.DATA /\ events[j].len > 0
            /\ \A m \in j + 1 .. i - 1 : events[m].cb = "onBody"
            /\ e.at = events[j].at + BodyBytes(events, j + 1, i - 1)
            /\ e.pend = events[j].len - BodyBytes(events, j + 1, i - 1)
            /\ Len(e.data) >= 1 /\ Len(e.data) <= e.pend
            /\ e.data = SubSeq(wire, e.at + 1, e.at + Len(e.data))
  /\ \A j \in 1 .. Len(events) :
       (IsHeaderEvent(events[j]) /\ events[j].type = FrameType.DATA
          /\ events[j].len > 0) =>
         LET ends == {i \in j + 1 .. Len(events) : events[i].cb # "onBody"}
             last == IF ends = {} THEN Len(events)
                     ELSE (CHOOSE i \in ends : \A k \in ends : i <= k) - 1
             sum == BodyBytes(events, j + 1, last)
         IN IF ends = {} /\ frameState_ = "FRAME_PAYLOAD_STREAMING"
            THEN /\ pendingDataFrameBytes_ > 0
                 /\ sum = events[j].len - pendingDataFrameBytes_
            ELSE sum = events[j].len

\* C6 (step part): a chunk fired by a call is min(bytes of the call's buffer
\* not yet read, bytes pending) long.
C6_ChunkIsMin ==
  \A i \in Len(events) + 1 .. Len(events') :
    events'[i].cb = "onBody" =>
      Len(events'[i].data) = Min(lastEnd' - events'[i].at, events'[i].pend)

\* C6: a DATA frame of length L > 0 is streamed as chunks after its
\* onFrameHeader, each min(available, pending) long, in byte order, summing to
\* L, none after the last pending byte until a new onFrameHeader.
C6_DataStreaming == []C6_ChunksWithinFrame /\ [][C6_ChunkIsMin]_vars

\* C6 witness: a DATA frame of length 2 delivered as two chunks, followed by
\* the onFrameHeader of the next frame.
C6_Witness ==
  /\ Len(events) >= 4
  /\ IsHeaderEvent(events[1]) /\ events[1].type = FrameType.DATA
  /\ events[1].len = 2
  /\ events[2].cb = "onBody" /\ events[3].cb = "onBody"
  /\ IsHeaderEvent(events[4])

\* The latest call was handed every byte of the stream and was not paused.
AllPresented == lastEnd = Len(wire) /\ lastStop # "paused" /\ lastStop # "init"

\* C7, as claimed: once the whole stream has been handed to the parser, a
\* DATA frame of declared length 0 in it has made the parser fail with
\* HTTP_MALFORMED_FRAME_DATA (outside the partially reliable mode, where that
\* length announces an unframed body).
C7_ZeroLengthDataRejected ==
  ( /\ ~partialReliability
    /\ AllPresented
    /\ \E i \in 1 .. Len(events) :
         /\ IsHeaderEvent(events[i])
         /\ events[i].type = FrameType.DATA /\ events[i].len = 0 )
  => /\ connError_ = "HTTP_MALFORMED_FRAME_DATA"
     /\ events[Len(events)].cb = "onError"
     /\ events[Len(events)].err = "HTTP_MALFORMED_FRAME_DATA"

\* C8, as claimed: once the whole stream has been handed to the parser, a
\* HEADERS frame of declared length 0 in it has been dispatched with an empty
\* payload, without error, and the parser has left the frame.
C8_ZeroLengthHeadersParsed ==
  \A i \in 1 .. Len(events) :
    ( /\ AllPresented
      /\ IsHeaderEvent(events[i])
      /\ events[i].type = FrameType.HEADERS /\ events[i].len = 0 )
    => /\ i < Len(events)
       /\ events[i + 1].cb = "onHeaders" /\ events[i + 1].data = <<>>
       /\ ~(frameState_ = "FRAME_PAYLOAD" /\ HeaderBefore(Len(events) + 1) = i)

\* The PRIORITY frames the claim is about: a flags byte with an empty bit
\* set, or naming TREE_ROOT as the prioritized element.
BadPriorityFlags(flags) ==
  \/ (flags \div 2) % 8 # 0
  \/ flags \div 64 = PriorityElementType.TREE_ROOT

\* C9: a PRIORITY frame with such a flags byte is rejected: no onPriority is
\* fired for it; as soon as a call that is not paused holds the whole frame,
\* connError_ is HTTP_MALFORMED_FRAME_PRIORITY and onError has fired once, with
\* that code, as the last callback; calls made afterwards return 0.
C9_BadPriorityRejected ==
  \A i \in 1 .. Len(events) :
    LET e == events[i] IN
    ( /\ IsHeaderEvent(e) /\ e.type = FrameType.PRIORITY /\ e.len >= 1
      /\ BadPriorityFlags(wire[e.at + 1]) )
    => IF i = Len(events)
       THEN /\ connError_ = NONE
            /\ frameState_ = "FRAME_PAYLOAD"
            /\ lastEnd < e.at + e.len \/ lastStop = "paused"
       ELSE /\ i + 1 = Len(events)
            /\ events[i + 1].cb = "onError"
            /\ events[i + 1].err = "HTTP_MALFORMED_FRAME_PRIORITY"
            /\ connError_ = "HTTP_MALFORMED_FRAME_PRIORITY"
            /\ Len(ErrorEvents) = 1
            /\ lastStop = "erroredBefore" => lastRet = 0

\* C9 witness: a PRIORITY frame naming TREE_ROOT as the prioritized element
\* has been rejected and a later call, handed further bytes, returned 0.
C9_Witness ==
  /\ connError_ = "HTTP_MALFORMED_FRAME_PRIORITY"
  /\ lastStop = "erroredBefore" /\ lastEnd > pos /\ lastRet = 0
  /\ \E i \in 1 .. Len(events) :
       /\ IsHeaderEvent(events[i]) /\ events[i].type = FrameType.PRIORITY
       /\ BadPriorityFlags(wire[events[i].at + 1])
       /\ wire[events[i].at + 1] \div 64 = PriorityElementType.TREE_ROOT

RECURSIVE VarintCount(_, _)
\* The number of whole varints p splits into, counted by the length class of
\* each first byte; -1 when p ends inside a varint.
VarintCount(p, k) ==
  IF p = <<>> THEN k
  ELSE LET n == Pow2(p[1] \div 64) IN
       IF n > Len(p) THEN -1
       ELSE VarintCount(SubSeq(p, n + 1, Len(p)), k + 1)

\* The payload ends inside an id or a value, or after an id with no value.
TruncatedSettings(p) == VarintCount(p, 0) = -1 \/ VarintCount(p, 0) % 2 = 1

\* C10: a SETTINGS frame whose declared length cuts an id or a value, or leaves
\* an id without value, is rejected with HTTP_MALFORMED_FRAME_SETTINGS once its
\* payload is dispatched, whatever bytes follow the declared length; and the
\* settings parser leaves the cursor within the declared length.
C10_TruncatedSettingsRejected ==
  \A i \in 1 .. Len(events) :
    LET e == events[i] IN
    ( /\ IsHeaderEvent(e) /\ e.type = FrameType.SETTINGS
      /\ e.at + e.len <= Len(wire) )
    => /\ parseSettings(wire, e.at, e.len).cur <= e.at + e.len
       /\ TruncatedSettings(SubSeq(wire, e.at + 1, e.at + e.len)) =>
            IF i = Len(events)
            THEN /\ connError_ = NONE
                 /\ frameState_ = "FRAME_PAYLOAD"
                 /\ lastEnd < e.at + e.len \/ lastStop = "paused"
            ELSE /\ events[i + 1].cb = "onError"
                 /\ events[i + 1].err = "HTTP_MALFORMED_FRAME_SETTINGS"
                 /\ connError_ = "HTTP_MALFORMED_FRAME_SETTINGS"

\* C10 witness: a frame that declares an id only, followed in the buffer by a
\* byte that would read as its value, has been rejected.
C10_Witness ==
  /\ connError_ = "HTTP_MALFORMED_FRAME_SETTINGS"
  /\ Len(events) = 2
  /\ IsHeaderEvent(events[1]) /\ events[1].type = FrameType.SETTINGS
  /\ events[1].len = 1
  /\ VarintCount(SubSeq(wire, events[1].at + 1, events[1].at + 1), 0) = 1
  /\ Len(wire) > events[1].at + 1
  /\ wire[events[1].at + 2] < 64
  /\ lastEnd > events[1].at + 1

RECURSIVE BigEndian(_)
\* The number written in q, most significant byte first.
BigEndian(q) ==
  IF q = <<>> THEN 0 ELSE BigEndian(SubSeq(q, 1, Len(q) - 1)) * 256 + q[Len(q)]

RECURSIVE VarintsOf(_)
\* The values of the varints that p splits into (p does not end inside one).
VarintsOf(p) ==
  IF p = <<>> THEN <<>>
  ELSE LET n == Pow2(p[1] \div 64) IN
       <<BigEndian(<<p[1] % 64>> \o SubSeq(p, 2, n))>>
         \o VarintsOf(SubSeq(p, n + 1, Len(p)))

RECURSIVE KnownPairs(_)
\* Of the (id, value) pairs in v = <<id1, value1, id2, value2, ...>>, those
\* whose id is one of the four settings, flattened, in order.
KnownPairs(v) ==
  IF Len(v) < 2 THEN <<>>
  ELSE (IF v[1] \in {SettingId.HEADER_TABLE_SIZE, SettingId.NUM_PLACEHOLDERS,
                     SettingId.MAX_HEADER_LIST_SIZE, SettingId.QPACK_BLOCKED_STREAMS}
        THEN <<v[1], v[2]>> ELSE <<>>)
       \o KnownPairs(SubSeq(v, 3, Len(v)))

\* The payload of the frame whose onFrameHeader is e.
PayloadOf(e) == SubSeq(wire, e.at + 1, e.at + e.len)

\* C11: parsing a well-formed SETTINGS payload succeeds, consumes the whole
\* payload and reports exactly the pairs with one of the four known ids, in
\* wire order; the other pairs are decoded and dropped.  When the codec has
\* dispatched the frame, the event after its onFrameHeader is that report.
C11_KnownSettingsReported ==
  \A i \in 1 .. Len(events) :
    LET e == events[i] IN
    ( /\ IsHeaderEvent(e) /\ e.type = FrameType.SETTINGS
      /\ e.at + e.len <= Len(wire)
      /\ ~TruncatedSettings(PayloadOf(e)) )
    => /\ parseSettings(wire, e.at, e.len)
            = Parsed(NONE, e.at + e.len, KnownPairs(VarintsOf(PayloadOf(e))))
       /\ IF i = Len(events)
          THEN connError_ = NONE /\ frameState_ = "FRAME_PAYLOAD"
          ELSE /\ events[i + 1].cb = "onSettings"
               /\ events[i + 1].data = KnownPairs(VarintsOf(PayloadOf(e)))

\* C11 witness: a pair with an unknown id, then a pair with a known id; only
\* the second one is reported.
C11_Witness ==
  /\ Len(events) = 2
  /\ IsHeaderEvent(events[1]) /\ events[1].type = FrameType.SETTINGS
  /\ PayloadOf(events[1]) = <<2, 1, SettingId.HEADER_TABLE_SIZE, 2>>
  /\ events[2].cb = "onSettings"
  /\ events[2].data = <<SettingId.HEADER_TABLE_SIZE, 2>>

\* The code that reports a malformed payload of each kind.
MalformedCode(type) ==
  CASE type = FrameType.DATA -> "HTTP_MALFORMED_FRAME_DATA"
    [] type = FrameType.PRIORITY -> "HTTP_MALFORMED_FRAME_PRIORITY"
    [] type = FrameType.CANCEL_PUSH -> "HTTP_MALFORMED_FRAME_CANCEL_PUSH"
    [] type = FrameType.SETTINGS -> "HTTP_MALFORMED_FRAME_SETTINGS"
    [] type = FrameType.PUSH_PROMISE -> "HTTP_MALFORMED_FRAME_PUSH_PROMISE"
    [] type = FrameType.GOAWAY -> "HTTP_MALFORMED_FRAME_GOAWAY"
    [] type = FrameType.MAX_PUSH_ID -> "HTTP_MALFORMED_FRAME_MAX_PUSH_ID"
    [] OTHER -> "none"

\* C12: a dispatched CANCEL_PUSH, GOAWAY or MAX_PUSH_ID payload is accepted
\* if and only if it is exactly one varint; and an error that is not the
\* allowlist's follows the onFrameHeader of the frame it rejects and is the
\* malformed-payload code of that frame's kind.
C12_OneVarintAndOwnCode ==
  /\ \A i \in 1 .. Len(events) - 1 :
       LET e == events[i] IN
       ( /\ IsHeaderEvent(e)
         /\ e.type \in {FrameType.CANCEL_PUSH, FrameType.GOAWAY, FrameType.MAX_PUSH_ID} )
       => IF VarintCount(PayloadOf(e), 0) = 1
          THEN /\ events[i + 1].cb = PayloadCallback(e.type)
               /\ events[i + 1].err = NONE
          ELSE /\ IsErrorEvent(events[i + 1])
               /\ events[i + 1].err = MalformedCode(e.type)
  /\ \A j \in 1 .. Len(events) :
       (IsErrorEvent(events[j]) /\ events[j].err # "HTTP_WRONG_STREAM")
       => /\ j > 1
          /\ IsHeaderEvent(events[j - 1])
          /\ events[j].err = MalformedCode(events[j - 1].type)

\* C12 witness: a GOAWAY payload of two varints, rejected with the GOAWAY code.
C12_Witness ==
  /\ Len(events) = 2
  /\ IsHeaderEvent(events[1]) /\ events[1].type = FrameType.GOAWAY
  /\ VarintCount(PayloadOf(events[1]), 0) = 2
  /\ IsErrorEvent(events[2])
  /\ events[2].err = "HTTP_MALFORMED_FRAME_GOAWAY"
  /\ connError_ = "HTTP_MALFORMED_FRAME_GOAWAY"

\* The bytes the latest write operation appended to the queue.
Appended == SubSeq(writeBuf, Len(lastWrite.before) + 1, Len(writeBuf))

\* The frame header at the front of the appended bytes: [ok, type, length,
\* size], read as the parser reads it.
AppendedHeader ==
  LET t == decodeQuicInteger(Appended, 0, kMaxVarintLen)
      l == decodeQuicInteger(Appended, t.second, kMaxVarintLen)
  IN [ok |-> t.ok /\ l.ok, type |-> t.first, length |-> l.first,
      size |-> t.second + l.second]

\* The outcome of parseFrame on the appended frame: [err, cur, evs].
ParsedBack ==
  parseFrame(Appended, AppendedHeader.size, AppendedHeader.type,
             AppendedHeader.length, 0, 0)

PushIdOps == {"writeCancelPush", "writePushPromise", "writeMaxPushId"}

\* C13: a push id in internal form whose external form is encodable is
\* written with the mask cleared (the varint after the frame header is the id
\* without the mask bit), and the parser of the written frame returns the id
\* with the mask set: the internal id that was written.
C13_PushIdMaskRoundTrip ==
  ( /\ lastWrite.op \in PushIdOps
    /\ (lastWrite.fields[1] \div kPushIdMask) % 2 = 1
    /\ lastWrite.fields[1] - kPushIdMask < kVarintLimit )
  => /\ lastWrite.ok
     /\ AppendedHeader.ok
     /\ LET onWire == decodeQuicInteger(Appended, AppendedHeader.size,
                                        AppendedHeader.length)
        IN /\ onWire.ok
           /\ onWire.first = lastWrite.fields[1] - kPushIdMask
           /\ (onWire.first \div kPushIdMask) % 2 = 0
     /\ ParsedBack.err = NONE
     /\ Len(ParsedBack.evs) = 1
     /\ ParsedBack.evs[1].data[1] = lastWrite.fields[1]

\* C13 witness: a push promise with a 2-byte push id, appended to a queue
\* that already holds a frame.
C13_Witness ==
  /\ lastWrite.op = "writePushPromise"
  /\ lastWrite.ok
  /\ lastWrite.fields = <<kPushIdMask + 64, 97>>
  /\ lastWrite.before # <<>>

\* The frame type the latest call decoded at the offset where it stopped.
TypeAtStop == decodeQuicInteger(SubSeq(wire, 1, lastEnd), pos, kMaxVarintLen)

\* C14: a frame whose type checkFrameAllowed rejects never reaches
\* FRAME_HEADER_LENGTH: no onFrameHeader carries a rejected type, none of its
\* bytes is consumed, and the call that decodes the type leaves connError_ equal
\* to the code checkFrameAllowed returned and fires onError with that code as
\* its last callback, the frames before it having had their onFrameHeader.
\* (The bytes that follow an unframed DATA header are body, not frames.)
C14_DisallowedFrameRejected ==
  LET fs == WireFrames(wire, 0) IN
  /\ \A k \in 1 .. Len(HeaderEvents) :
       checkFrameAllowed(streamRole, HeaderEvents[k].type) = NONE
  /\ frameState_ # "FRAME_HEADER_TYPE"
       => checkFrameAllowed(streamRole, curHeader_.type) = NONE
  /\ frameState_ # "FRAME_PAYLOAD_PARTIALLY_RELIABLE_STREAMING"
       => \A k \in 1 .. Len(fs) :
            checkFrameAllowed(streamRole, fs[k].type) # NONE => pos < fs[k].at
  /\ lastStop = "notAllowed" =>
       /\ TypeAtStop.ok
       /\ curHeader_.type = TypeAtStop.first
       /\ checkFrameAllowed(streamRole, TypeAtStop.first) # NONE
       /\ connError_ = checkFrameAllowed(streamRole, TypeAtStop.first)
       /\ frameState_ = "FRAME_HEADER_TYPE"
       /\ events # <<>>
       /\ IsErrorEvent(events[Len(events)])
       /\ events[Len(events)].err = connError_
       /\ Len(HeaderEvents) = Cardinality({k \in 1 .. Len(fs) : fs[k].at <= pos})
  /\ connError_ = "HTTP_WRONG_STREAM" => lastStop \in {"notAllowed", "erroredBefore"}

\* C14 witness: a frame was parsed, then the type of the next one was rejected
\* in a call that also held its length varint.
C14_Witness ==
  /\ lastStop = "notAllowed" /\ pos > 0 /\ Len(HeaderEvents) = 1
  /\ lastEnd > pos + TypeAtStop.second
  /\ Len(events) = 3

\* C15, as claimed: a call made while parserPaused_ is set returns 0, fires no callback and
\* leaves frameState_, curHeader_, pendingDataFrameBytes_ and totalBytesParsed_
\* as they were; and in a call whose p-th callback calls setParserPaused(true),
\* that callback is the last one fired by the call.
C15_PausedNoOpAndPauseStopsCallbacks ==
  [][ /\ parserPaused_ =>
           /\ UNCHANGED <<frameState_, curHeader_, pendingDataFrameBytes_,
                          totalBytesParsed_, events, pos>>
           /\ (<<lastRet, lastEnd, lastStop>>' # <<lastRet, lastEnd, lastStop>>
                 => lastRet' = 0)
      /\ \A pauseAt \in 1 .. MaxPauseAt :
           OnIngress(lastEnd', pauseAt) => Len(events') <= Len(events) + pauseAt
    ]_vars

\* C15, amended: a call made while parserPaused_ is set returns 0, fires no
\* callback and leaves the parser members as they were; in a call whose p-th
\* callback calls setParserPaused(true) no further loop iteration runs, so
\* that callback is the last one of the call unless it is the onFrameHeader of
\* an unframed DATA frame, which the partial-reliability hook of the same
\* iteration still follows; the bytes behind stay unconsumed.
C15_PauseStopsLoop ==
  [][ /\ parserPaused_ =>
           /\ UNCHANGED <<frameState_, curHeader_, pendingDataFrameBytes_,
                          totalBytesParsed_, events, pos>>
           /\ (<<lastRet, lastEnd, lastStop>>' # <<lastRet, lastEnd, lastStop>>
                 => lastRet' = 0)
      /\ \A pauseAt \in 1 .. MaxPauseAt :
           OnIngress(lastEnd', pauseAt) =>
             \/ Len(events') <= Len(events) + pauseAt
             \/ /\ Len(events') = Len(events) + pauseAt + 1
                /\ events'[Len(events')].cb = "onUnframedBodyStarted"
                /\ IsHeaderEvent(events'[Len(events') - 1])
                /\ events'[Len(events')].at = events'[Len(events') - 1].at
                /\ frameState_' = "FRAME_PAYLOAD_PARTIALLY_RELIABLE_STREAMING"
    ]_vars

\* C15 witness: a callback paused the parser in a call that had consumed bytes
\* and still held some, which it left unconsumed.
C15_Witness ==
  /\ parserPaused_ /\ connError_ = NONE /\ events # <<>>
  /\ lastStop = "paused" /\ lastRet > 0 /\ lastEnd > pos

\* C16: the call in which connError_ is first set (by the allowlist or by a
\* payload parser) returns with parserPaused_ set and with onError as its last
\* callback, fired once in the whole run and carrying connError_ as its errno.
C16_FirstErrorPausesAndReports ==
  [][connError_ = NONE /\ connError_' # NONE =>
       /\ parserPaused_'
       /\ Len(events') > Len(events)
       /\ IsErrorEvent(events'[Len(events')])
       /\ events'[Len(events')].err = connError_'
       /\ Len(SelectSeq(events', IsErrorEvent)) = 1
       /\ connError_' \in {"HTTP_WRONG_STREAM"}
                             \cup {MalformedCode(type) : type \in DefinedTypes}
       /\ lastStop' \in {"notAllowed", "error"}]_vars

\* C16 witness: a payload parser failed in a call that had fired callbacks
\* before, and the call returned with the parser paused.
C16_Witness ==
  /\ connError_ \notin {NONE, "HTTP_WRONG_STREAM"} /\ parserPaused_
  /\ lastStop = "error" /\ lastRet > 0
  /\ Len(events) >= 3 /\ IsErrorEvent(events[Len(events)])

\* C17: a write operation that fails because a varint it must encode is not
\* below the varint limit leaves the output queue as it was given.
C17_FailedWriteLeavesQueue ==
  ~lastWrite.ok => writeBuf = lastWrite.before

\* C18: a successful write appends to the queue it was given and returns the
\* number of bytes appended, which is the size of the type varint plus the
\* size of the length varint plus the payload; the appended bytes start with
\* the frame's type and with a length equal to the number of payload bytes
\* that follow (writeFrameHeader appends the header alone, with the length it
\* was given).
C18_WriteReturnsBytesAppended ==
  (lastWrite.op # "none" /\ lastWrite.ok) =>
    /\ IsPrefix(lastWrite.before, writeBuf)
    /\ lastWrite.ret = Len(writeBuf) - Len(lastWrite.before)
    /\ AppendedHeader.ok
    /\ AppendedHeader.type = lastWrite.type
    /\ AppendedHeader.size = getQuicIntegerSize(AppendedHeader.type).size
                               + getQuicIntegerSize(AppendedHeader.length).size
    /\ IF lastWrite.op = "writeFrameHeader"
       THEN /\ AppendedHeader.length = lastWrite.fields[1]
            /\ lastWrite.ret = AppendedHeader.size
       ELSE /\ AppendedHeader.length = Len(Appended) - AppendedHeader.size
            /\ lastWrite.ret = AppendedHeader.size + AppendedHeader.length

\* C18 witness: a PRIORITY frame with a 2-byte dependency id (7 bytes in all)
\* appended to a queue that already holds bytes.
C18_Witness ==
  /\ lastWrite.op = "writePriority" /\ lastWrite.ok
  /\ lastWrite.before # <<>>
  /\ lastWrite.ret = 7 /\ AppendedHeader.length = 5

\* The frame written last is a valid frame of one of the eight kinds: DATA
\* with a non-empty payload, a PRIORITY whose prioritizedType is not
\* TREE_ROOT, and every integer that goes on the wire below the varint limit.
ValidFrameWritten ==
  CASE lastWrite.op = "writeData" -> lastWrite.fields # <<>>
    [] lastWrite.op = "writeHeaders" -> TRUE
    [] lastWrite.op = "writePriority" ->
         /\ lastWrite.fields[1] # PriorityElementType.TREE_ROOT
         /\ lastWrite.fields[4] < kVarintLimit
         /\ lastWrite.fields[2] # PriorityElementType.TREE_ROOT
              => lastWrite.fields[5] < kVarintLimit
    [] lastWrite.op \in PushIdOps ->
         /\ (lastWrite.fields[1] \div kPushIdMask) % 2 = 1
         /\ lastWrite.fields[1] - kPushIdMask < kVarintLimit
    [] lastWrite.op = "writeGoaway" -> lastWrite.fields[1] < kVarintLimit
    [] lastWrite.op = "writeSettings" ->
         \A i \in 1 .. Len(lastWrite.fields) :
           IF i % 2 = 1 THEN lastWrite.fields[i] \in KnownSettingIds
           ELSE lastWrite.fields[i] < kVarintLimit
    [] OTHER -> FALSE

\* The fields of a written frame that are part of it: a PRIORITY frame that
\* depends on the tree root has no elementDependencyId (writePriority does
\* not encode it and parsePriority does not assign it).
FieldsPresent(fields, type) ==
  IF type = FrameType.PRIORITY /\ fields[2] = PriorityElementType.TREE_ROOT
  THEN [fields EXCEPT ![5] = 0]
  ELSE fields

\* C19: the bytes a write operation appends for a valid frame start with a
\* header of the frame's kind whose length is the size of the payload behind
\* it, and the parser of that kind, run on the payload, succeeds, consumes
\* all of it and returns the fields that were written.
C19_ParseOfWrittenFrame ==
  ValidFrameWritten =>
    /\ lastWrite.ok
    /\ AppendedHeader.ok
    /\ AppendedHeader.type = lastWrite.type
    /\ AppendedHeader.length = Len(Appended) - AppendedHeader.size
    /\ ParsedBack.err = NONE
    /\ ParsedBack.cur = Len(Appended)
    /\ Len(ParsedBack.evs) = 1
    /\ ParsedBack.evs[1].cb = PayloadCallback(lastWrite.type)
    /\ FieldsPresent(ParsedBack.evs[1].data, lastWrite.type)
         = FieldsPresent(lastWrite.fields, lastWrite.type)

\* C19 witness: an exclusive PRIORITY update of a placeholder that depends on
\* the tree root was written behind another frame and parsed back.
C19_Witness ==
  /\ lastWrite.op = "writePriority" /\ ValidFrameWritten
  /\ lastWrite.fields[1] = PriorityElementType.PLACEHOLDER
  /\ lastWrite.fields[2] = PriorityElementType.TREE_ROOT
  /\ lastWrite.fields[3] = 1
  /\ lastWrite.before # <<>>
  /\ ParsedBack.err = NONE

\* C20: when decodeError is set or parsingError is not empty, onHeader
\* returns true and leaves the message (header list, status), contentLength_,
\* the seen-flags, parsingError and the pseudo-header verifier as they were.
C20_ErrorStateIgnoresFields ==
  [][ ( /\ decodeError # NONE \/ parsingError # <<>>
        /\ lastOnHeader'.cb = "onHeader"
        /\ headerCalls' = headerCalls + 1 )
      => /\ lastOnHeader'.ret = TRUE
         /\ UNCHANGED <<msg, decodeError, parsingError, verifier,
                        pseudoHeaderSeen_, regularHeaderSeen_, hasStatus_,
                        contentLength_>> ]_vars

\* C20 witness: a field was rejected, and a later field that would have been
\* added to the header list was delivered and ignored.
C20_Witness ==
  /\ parsingError # <<>> /\ decodeError = NONE
  /\ headerCalls = 3
  /\ lastOnHeader.cb = "onHeader" /\ lastOnHeader.ret = TRUE
  /\ lastOnHeader.name = <<"x", "-", "i", "d">>
  /\ Len(msg.headers) = 1

\* The step is an onHeader call delivered to a verifier that is not in an
\* error state.
OnHeaderStep ==
  /\ lastOnHeader'.cb = "onHeader"
  /\ headerCalls' = headerCalls + 1
  /\ decodeError = NONE
  /\ parsingError = <<>>

\* C21: a field whose name starts with ':' and that is delivered after a
\* regular header (one is in the header list, or regularHeaderSeen_ is set) to
\* a verifier that is not in an error state is rejected: onHeader returns
\* false, parsingError is "Illegal pseudo header name=" followed by the name,
\* and the message, the status flag and the pseudo-header verifier are left
\* as they were, for requests and for responses.
C21_PseudoAfterRegularRejected ==
  [][ ( /\ OnHeaderStep
        /\ regularHeaderSeen_ \/ msg.headers # <<>>
        /\ startsWith(lastOnHeader'.name, ":") )
      => /\ lastOnHeader'.ret = FALSE
         /\ parsingError' = <<"Illegal pseudo header name=", lastOnHeader'.name>>
         /\ UNCHANGED <<msg, verifier, hasStatus_, contentLength_>> ]_vars

\* C21 witness: a response in which :status came behind an accepted header.
C21_Witness ==
  /\ ~isRequest_ /\ Len(msg.headers) = 1 /\ msg.statusCode = 0
  /\ lastOnHeader.cb = "onHeader" /\ lastOnHeader.ret = FALSE
  /\ parsingError = <<"Illegal pseudo header name=",
                      <<":", "s", "t", "a", "t", "u", "s">>>>

kColonStatus == <<":", "s", "t", "a", "t", "u", "s">>

\* C22: in a response whose status code is set, a further :status delivered
\* to a verifier that is not in an error state is rejected whatever its
\* value: onHeader returns false, the message keeps the status code and
\* reason of the first, and parsingError is "Duplicate status" (when a regular
\* header came in between, the text of C21 instead).
C22_DuplicateStatusRejected ==
  [][ ( /\ OnHeaderStep
        /\ ~isRequest_
        /\ msg.statusCode # 0
        /\ lastOnHeader'.name = kColonStatus )
      => /\ lastOnHeader'.ret = FALSE
         /\ msg' = msg
         /\ hasStatus_ /\ hasStatus_'
         /\ parsingError' = IF regularHeaderSeen_
                            THEN <<"Illegal pseudo header name=", kColonStatus>>
                            ELSE <<"Duplicate status">> ]_vars

\* C22 witness: :status 200, then :status 204.
C22_Witness ==
  /\ ~isRequest_ /\ msg.statusCode = 200 /\ headerCalls = 2
  /\ lastOnHeader.cb = "onHeader" /\ lastOnHeader.ret = FALSE
  /\ lastOnHeader.name = kColonStatus /\ lastOnHeader.value = <<"2", "0", "4">>
  /\ parsingError = <<"Duplicate status">>

\* The value is the decimal text of an integer from 100 to 999.
IsStatusCodeText(value) ==
  /\ tryToSigned(value).ok
  /\ tryToSigned(value).num \in 100 .. 999

\* C23: the first :status of a response, delivered in pseudo-header position
\* to a verifier that is not in an error state, is accepted iff its value
\* parses as an integer in [100, 999]: then onHeader returns true, the status
\* code is that integer and the status message its default reason phrase;
\* otherwise onHeader returns false, parsingError is "Malformed status code="
\* followed by the value, and the message is unchanged (no status code).
C23_StatusAcceptedIffInRange ==
  [][ ( /\ OnHeaderStep
        /\ ~isRequest_ /\ ~hasStatus_ /\ ~regularHeaderSeen_
        /\ lastOnHeader'.name = kColonStatus )
      => /\ msg.statusCode = 0
         /\ lastOnHeader'.ret = IsStatusCodeText(lastOnHeader'.value)
         /\ IF IsStatusCodeText(lastOnHeader'.value)
            THEN /\ parsingError' = <<>>
                 /\ msg' = [msg EXCEPT
                      !.statusCode = DecimalValue(lastOnHeader'.value, 0),
                      !.statusMessage =
                        getDefaultReason(DecimalValue(lastOnHeader'.value, 0))]
            ELSE /\ parsingError' =
                      <<"Malformed status code=", lastOnHeader'.value>>
                 /\ msg' = msg ]_vars

\* C23 witness: :status 1000 was refused and no status code is set.
C23_Witness ==
  /\ ~isRequest_ /\ msg.statusCode = 0 /\ headerCalls = 1
  /\ lastOnHeader.cb = "onHeader" /\ lastOnHeader.ret = FALSE
  /\ parsingError = <<"Malformed status code=", <<"1", "0", "0", "0">>>>

IsContentLength(entry) == entry[1] = "HTTP_HEADER_CONTENT_LENGTH"

\* The values of the Content-Length headers accepted so far, in order.
AcceptedContentLengths == SelectSeq(msg.headers, IsContentLength)

\* C24: once a Content-Length header has been accepted, a further one
\* delivered to a verifier that is not in an error state is accepted and
\* appended to the header list when its value equals the first accepted
\* value, and is rejected with parsingError "Multiple content-length headers"
\* when its value differs.
C24_ContentLengthMustRepeat ==
  [][ ( /\ OnHeaderStep
        /\ AcceptedContentLengths # <<>>
        /\ getHeaderCode(lastOnHeader'.name) = "HTTP_HEADER_CONTENT_LENGTH" )
      => IF lastOnHeader'.value = AcceptedContentLengths[1][3]
         THEN /\ lastOnHeader'.ret = TRUE
              /\ msg'.headers =
                   Append(msg.headers, <<"HTTP_HEADER_CONTENT_LENGTH", <<>>,
                                         lastOnHeader'.value>>)
         ELSE /\ lastOnHeader'.ret = FALSE
              /\ parsingError' = <<"Multiple content-length headers">> ]_vars

OnHeadersCompleteStep ==
  /\ lastOnHeader'.cb = "onHeadersComplete"
  /\ headerCalls' = headerCalls + 1

\* The block is request trailers, or a response block without :status.
IsTrailersBlock == isRequestTrailers_ \/ (~isRequest_ /\ ~hasStatus_)

\* C25: onHeadersComplete on a trailers block (request trailers, or a response
\* block in which no :status was seen) in which a pseudo-header was seen sets
\* parsingError to "Pseudo headers forbidden in trailers." and leaves the
\* message, HTTP version and ingress header size included, as it was; on a
\* trailers block without pseudo-header it sets the version to 1.1 and the
\* ingress header size to the decoded size and leaves parsingError alone.
C25_PseudoHeadersForbiddenInTrailers ==
  [][ ( OnHeadersCompleteStep /\ IsTrailersBlock )
      => IF pseudoHeaderSeen_
         THEN /\ parsingError' = <<"Pseudo headers forbidden in trailers.">>
              /\ msg' = msg
              /\ msg'.version = <<0, 0>> /\ msg'.ingressHeaderSize = 0
         ELSE /\ parsingError' = parsingError
              /\ \E decodedSize \in DecodedSizes :
                   msg' = [msg EXCEPT !.version = <<1, 1>>,
                                      !.ingressHeaderSize = decodedSize] ]_vars

\* C25 witness: response trailers in which a pseudo-header followed a
\* regular header were refused at the end of the block.
C25_Witness ==
  /\ ~isRequest_ /\ ~hasStatus_ /\ pseudoHeaderSeen_ /\ msg.headers # <<>>
  /\ lastOnHeader.cb = "onHeadersComplete"
  /\ parsingError = <<"Pseudo headers forbidden in trailers.">>
  /\ msg.version = <<0, 0>> /\ msg.ingressHeaderSize = 0

\* C26: parsingError is non-empty iff a validation failure has occurred:
\* when onHeader returns false parsingError is non-empty as the call
\* returns, on every rejection path, and parsingError becomes non-empty only
\* in an onHeader call that returns false or in onHeadersComplete.
C26_ParsingErrorIffRejected ==
  [][ /\ ( lastOnHeader'.cb = "onHeader" /\ ~lastOnHeader'.ret )
           => parsingError' # <<>>
      /\ ( parsingError = <<>> /\ parsingError' # <<>> )
           => \/ lastOnHeader'.cb = "onHeader" /\ ~lastOnHeader'.ret
              \/ lastOnHeader'.cb = "onHeadersComplete" ]_vars

\* Bytes of the frame still pending once chunk i of the log is delivered.
PendingAfter(i) == events[i].pend - Len(events[i].data)

\* C27 (state part): within a streamed DATA frame the pending count handed
\* to the first chunk is the declared length and the one handed to a later
\* chunk is what the chunk before it left; a chunk never exceeds what is
\* pending; a chunk that leaves bytes pending is followed by a chunk only, and
\* while it is the latest event the parser is in FRAME_PAYLOAD_STREAMING with
\* exactly that many bytes pending; a chunk that leaves none is never followed
\* by a chunk, and while it is the latest event the parser has left the frame
\* with 0 pending.
C27_PendingWithinFrame ==
  \A i \in 1 .. Len(events) :
    events[i].cb = "onBody" =>
      /\ HeaderBefore(i) > 0
      /\ events[i].pend = IF HeaderBefore(i) = i - 1
                          THEN events[i - 1].len
                          ELSE PendingAfter(i - 1)
      /\ PendingAfter(i) >= 0 /\ PendingAfter(i) < events[i].pend
      /\ IF i < Len(events)
         THEN (events[i + 1].cb = "onBody") <=> (PendingAfter(i) > 0)
         ELSE IF PendingAfter(i) > 0
           THEN /\ frameState_ = "FRAME_PAYLOAD_STREAMING"
                /\ pendingDataFrameBytes_ = PendingAfter(i)
           ELSE /\ frameState_ \in {"FRAME_HEADER_TYPE", "FRAME_HEADER_LENGTH"}
                /\ pendingDataFrameBytes_ = 0

\* C27 (step part): a call that starts and ends inside the same streamed
\* DATA frame lowers pendingDataFrameBytes by the bytes of the chunks it
\* emitted and never raises it; a call that starts inside the frame and ends
\* outside has emitted every pending byte.
C27_PendingDecreasesByChunk ==
  frameState_ = "FRAME_PAYLOAD_STREAMING" =>
    LET new == Len(events) + 1 .. Len(events')
        hdrs == {i \in new : events'[i].cb # "onBody"}
        upto == IF hdrs = {} THEN Len(events')
                ELSE (CHOOSE i \in hdrs : \A k \in hdrs : i <= k) - 1
    IN IF frameState_' = "FRAME_PAYLOAD_STREAMING" /\ hdrs = {}
       THEN /\ pendingDataFrameBytes_' =
                 pendingDataFrameBytes_ - BodyBytes(events', Len(events) + 1, upto)
            /\ pendingDataFrameBytes_' <= pendingDataFrameBytes_
            /\ pendingDataFrameBytes_ > 0 => pendingDataFrameBytes_' > 0
       ELSE pendingDataFrameBytes_ > 0 =>
              BodyBytes(events', Len(events) + 1, upto) = pendingDataFrameBytes_

\* C27: within a streaming DATA frame pendingDataFrameBytes starts at the
\* declared length, never increases, decreases by exactly the length of each
\* emitted chunk, and the parser returns to FRAME_HEADER_TYPE exactly when it
\* reaches 0.
C27_PendingCountsDown ==
  []C27_PendingWithinFrame /\ [][C27_PendingDecreasesByChunk]_vars

\* C27 witness: a DATA frame of length 2 of which a call delivered one byte
\* and a later call the other, after which the parser left the frame.
C27_Witness ==
  /\ Len(events) = 3
  /\ IsHeaderEvent(events[1]) /\ events[1].type = FrameType.DATA
  /\ events[1].len = 2
  /\ events[2].cb = "onBody" /\ events[2].pend = 2 /\ Len(events[2].data) = 1
  /\ events[3].cb = "onBody" /\ events[3].pend = 1 /\ Len(events[3].data) = 1
  /\ frameState_ = "FRAME_HEADER_TYPE" /\ pendingDataFrameBytes_ = 0

\* The flags byte encodePriorityFlags makes of the priority update that the
\* latest writePriority call was given.
WrittenPriorityFlags ==
  encodePriorityFlags([prioritizedType |-> lastWrite.fields[1],
                       dependencyType |-> lastWrite.fields[2],
                       exclusive |-> lastWrite.fields[3] = 1])

\* C28: for every priority update whose prioritizedType is not TREE_ROOT,
\* decodePriorityFlags of the byte made by encodePriorityFlags succeeds and
\* gives back the prioritizedType, the dependencyType and the exclusive flag,
\* and the three empty bits of the byte (bits 1 to 3) are zero; the byte is
\* the first of the payload that a successful writePriority appends.
C28_PriorityFlagsRoundTrip ==
  ( /\ lastWrite.op = "writePriority"
    /\ lastWrite.fields[1] # PriorityElementType.TREE_ROOT )
  => /\ decodePriorityFlags(WrittenPriorityFlags).ok
     /\ decodePriorityFlags(WrittenPriorityFlags).prioritizedType
          = lastWrite.fields[1]
     /\ decodePriorityFlags(WrittenPriorityFlags).dependencyType
          = lastWrite.fields[2]
     /\ (decodePriorityFlags(WrittenPriorityFlags).exclusive # 0)
          = (lastWrite.fields[3] = 1)
     /\ (WrittenPriorityFlags \div 2) % 8 = 0
     /\ lastWrite.ok => writeBuf[Len(lastWrite.before) + 3] = WrittenPriorityFlags

\* C28 witness: an exclusive update of a placeholder that depends on a push
\* stream was written with the flags byte 0x91.
C28_Witness ==
  /\ lastWrite.op = "writePriority" /\ lastWrite.ok
  /\ lastWrite.fields[1] = PriorityElementType.PLACEHOLDER
  /\ lastWrite.fields[2] = PriorityElementType.PUSH_STREAM
  /\ lastWrite.fields[3] = 1
  /\ writeBuf[Len(lastWrite.before) + 3] = 145
  /\ decodePriorityFlags(145).ok

\* The wire is a sequence of complete frames, none of them a DATA frame of
\* declared length 0, and the parser has consumed every byte of it.
ConsumedCompleteFrames ==
  /\ lastStop # "init" /\ pos = Len(wire) /\ totalBytesParsed_ = Len(wire)
  /\ WireFrames(wire, 0) # <<>>
  /\ LET fs == WireFrames(wire, 0) IN
       /\ fs[Len(fs)].at + fs[Len(fs)].len = Len(wire)
       /\ \A k \in 1 .. Len(fs) : fs[k].type = FrameType.DATA => fs[k].len > 0

\* C29: when a call has returned without error and the parser has consumed
\* every byte of a sequence of complete well-formed allowed frames, the
\* parser is in FRAME_HEADER_TYPE and the payload of the last frame has been
\* dispatched (a frame of a defined type has fired its payload callback after
\* its onFrameHeader), also when the last frame has declared length 0.
C29_LastFrameDispatched ==
  ( connError_ = NONE /\ ~partialReliability /\ ConsumedCompleteFrames )
  => /\ frameState_ = "FRAME_HEADER_TYPE"
     /\ events # <<>>
     /\ ( /\ IsHeaderEvent(events[Len(events)])
          /\ events[Len(events)].type \in DefinedTypes ) => FALSE

\* The length handed to the payload parser that fired event k of the log: the
\* chunk for a streamed DATA frame, the declared length otherwise.
LengthGiven(k) ==
  IF events[k].cb = "onBody" THEN Len(events[k].data)
  ELSE events[HeaderBefore(k)].len

\* C30: a payload parser that returned success (its callback fired) was
\* handed a cursor at offset `at` and a header of some length, and left the
\* cursor at exactly at + length, whatever bytes follow in the buffer and
\* however short the length is for the kind; so the bytes the codec accounts
\* for are the bytes read: the payload callback holds the bytes of the wire
\* that the length covers where they are data, and the onFrameHeader that
\* follows is that of the frame serialized at at + length.
C30_ParserReadsDeclaredLength ==
  \A k \in 1 .. Len(events) :
    events[k].cb \in PayloadCallbacks \ {"none"} =>
      LET e == events[k]
          r == parseFrame(wire, e.at, e.type, LengthGiven(k), e.at, e.pend)
      IN /\ HeaderBefore(k) > 0
         /\ e.type = events[HeaderBefore(k)].type
         /\ r.err = NONE
         /\ r.cur = e.at + LengthGiven(k)
         /\ r.cur <= Len(wire)
         /\ ( k < Len(events) /\ IsHeaderEvent(events[k + 1]) )
              => /\ FrameAt(e.at + LengthGiven(k)) # <<>>
                 /\ events[k + 1].at = FrameAt(e.at + LengthGiven(k))[1].at
                 /\ events[k + 1].type = FrameAt(e.at + LengthGiven(k))[1].type
                 /\ events[k + 1].len = FrameAt(e.at + LengthGiven(k))[1].len

\* C30 witness: a PUSH_PROMISE frame of declared length 1 was accepted with
\* three further bytes behind it in the buffer of the same call, which were
\* then read as the HEADERS frame they are.
C30_Witness ==
  /\ Len(wire) = 6 /\ wire[1] = FrameType.PUSH_PROMISE /\ wire[2] = 1
  /\ lastEnd = 6 /\ lastRet = 6
  /\ Len(events) = 4 /\ events[2].cb = "onPushPromise" /\ events[2].at = 2
  /\ IsHeaderEvent(events[3]) /\ events[3].at = 5
  /\ events[4].cb = "onHeaders"
  /\ frameState_ = "FRAME_HEADER_TYPE" /\ connError_ = NONE

\* C31 (step part): a call of onIngress adds the value it returns to
\* totalBytesParsed, whichever exit it took, and nothing else changes the
\* counter.
C31_TotalGrowsByReturn ==
  IF lastStop' # lastStop \/ lastEnd' # lastEnd \/ lastRet' # lastRet
     \/ events' # events \/ pos' # pos
  THEN /\ totalBytesParsed_' = U64(totalBytesParsed_ + lastRet')
       /\ pos' = pos + lastRet'
  ELSE totalBytesParsed_' = totalBytesParsed_

\* C31: in every reachable state totalBytesParsed is the sum of the values
\* returned by the onIngress calls made so far (pos, the offset of the first
\* byte the transport still holds), also after a call that ended in an
\* allowlist error, a malformed-payload error, a pause or a wait for bytes.
C31_TotalIsSumOfReturns ==
  [](totalBytesParsed_ = U64(pos)) /\ [][C31_TotalGrowsByReturn]_vars

\* C31 witness: a call consumed a frame and ended in the allowlist error of
\* the next one, whose type byte is not counted.
C31_Witness ==
  /\ connError_ = "HTTP_WRONG_STREAM" /\ lastStop = "notAllowed"
  /\ lastRet > 0 /\ totalBytesParsed_ = lastRet /\ lastRet < lastEnd

\* C32: the value a call of onIngress returns never exceeds the length of
\* the buffer it was given (the bytes from pos up to lastEnd, so that the
\* offset consumed never passes the end of the buffer), and no iteration of
\* the loop fails CHECK_GE(bufLen, parsed), in any parser state.
C32_ReturnWithinBuffer ==
  /\ lastStop # "checkFailed"
  /\ lastRet >= 0 /\ lastRet <= pos
  /\ pos <= lastEnd /\ lastEnd <= Len(wire)

\* C32 witness: a call that read the header of an unframed DATA frame and
\* the body bytes behind it in the partially reliable state returned the
\* length of its buffer.
C32_Witness ==
  /\ frameState_ = "FRAME_PAYLOAD_PARTIALLY_RELIABLE_STREAMING"
  /\ Len(events) = 3 /\ events[3].cb = "onUnframedBody"
  /\ lastRet = lastEnd /\ lastRet > 2 /\ pos = lastRet

\* What the loop still has ahead of it: twice the bytes left in the buffer,
\* and one more while a payload is to be dispatched.
Rank(s) ==
  2 * s.bufLen
  + (IF s.frameState \in {"FRAME_PAYLOAD", "FRAME_PAYLOAD_STREAMING"} THEN 1 ELSE 0)

\* C33 (step part): an iteration after which the loop goes on has consumed at
\* least one byte or changed frameState, without touching connError, and has
\* lowered the rank; every other iteration sets connError or leaves the loop.
C33_IterationProgress ==
  ( call.stop = "run" /\ call' # call )
  => \/ call'.stop # "run"
     \/ /\ call'.connError # NONE
        /\ Rank(call') <= Rank(call)
     \/ /\ call'.bufLen < call.bufLen \/ call'.frameState # call.frameState
        /\ call'.bufLen <= call.bufLen
        /\ Rank(call') < Rank(call)

\* C33: every call of onIngress terminates: no iteration of the loop leaves
\* everything as it was, each one consumes a byte, moves frameState, sets
\* connError or leaves the loop, and a call that has entered the loop returns.
C33_EveryCallTerminates ==
  /\ [][C33_IterationProgress]_vars
  /\ [](call.stop = "run"
         => Iteration(call, SubSeq(wire, pos + 1, lastEnd)) # call)
  /\ (call.stop = "run") ~> (call = NoCall)

\* C33 witness: inside a call, a HEADERS frame of declared length 0 has been
\* dispatched by an iteration that consumed no byte, and the loop goes on
\* with the bytes behind it.
C33_Witness ==
  /\ call.stop = "run" /\ call.bufLen > 0 /\ call.parsedTot = 2
  /\ call.frameState = "FRAME_HEADER_TYPE"
  /\ call.curType = FrameType.HEADERS /\ call.curLen = 0
  /\ Len(events) = 2 /\ events[2].cb = "onHeaders"

====
